---- MODULE Spec2Model ----
(***************************************************************************)
(* Rhine water level monitor: the bounded history store                    *)
(* (WaterLevelStorage, js/storage.js), the alert classifier                *)
(* (RheinPegelApp.getAlertLevel, js/storage.js), the parser and the fetch  *)
(* client (RheinPegelAPI, js/api.js) and the fetch cycle of the            *)
(* coordinator (RheinPegelApp.fetchAndUpdate, js/storage.js).              *)
(*                                                                         *)
(* Each component has its own specification over the shared variables:     *)
(* Spec (store), ClassifierSpec, ConvertSpec, ParserSpec, FetchSpec and    *)
(* AppSpec.                                                                *)
(*                                                                         *)
(* In the store and the coordinator time is counted in hours: Date.now()   *)
(* is the variable now, a reading's timestamp is a number of hours, and    *)
(* hours * 60 * 60 * 1000 ms is `hours` units.  The retention limits are   *)
(* scaled (see maxEntries and maxAge); every formula is stated over the    *)
(* names, never the numbers.  The parser builds timestamps from calendar   *)
(* fields, so ParserSpec and FetchSpec count time in minutes.              *)
(***************************************************************************)
EXTENDS Integers, Sequences, FiniteSets, TLC

VARIABLES
  slot,   \* localStorage[storageKey]: absent, unparseable text, or a JSON blob
  now,    \* Date.now()
  last,   \* the last public call: its name, argument, outcome and I/O faults
          \* (for saveReading also how many readings the store held before)
  level,  \* classifier: the level handed to getAlertLevel
  tier,   \* classifier: the tier getAlertLevel returned for level
  pegelText,     \* convertGermanDecimal: its argument germanNumber
  centimeters,   \* convertGermanDecimal: what the call returned or threw
  xmlDoc,        \* parseXMLResponse: the document DOMParser made of xmlString
  parseResult,   \* parseXMLResponse: what the call returned or threw
  useCorsProxy,  \* RheinPegelAPI.useCorsProxy
  fc,            \* the frame of the fetchCurrentLevel call in progress
  attempts,      \* the attempts of that call so far: transport and outcome
  calls,         \* fetchCurrentLevel calls started on the client
  AppState,      \* the global AppState record
  display,       \* what updateDisplay last wrote to the page
  chart,         \* the points of the chart's level series
  cycle,         \* the fetchAndUpdate cycle in progress
  trace          \* what the last completed cycle called, in order

apiVars ==
  <<pegelText, centimeters, xmlDoc, parseResult, useCorsProxy, fc, attempts,
    calls>>
appVars == <<AppState, display, chart, cycle, trace>>
vars == <<slot, now, last, level, tier, apiVars, appVars>>

\* ------------------------------------------------------------------------
\* Sizes.  The program has maxEntries = 1440 and maxAge = 24 h; the model
\* keeps the code and scales the two limits.
\* ------------------------------------------------------------------------
maxEntries == 3
maxAge == 2
\* getHistoricalData(hours = 24): the default window equals maxAge
DefaultHours == maxAge
\* The clock starts late enough for every timestamp to be non-negative.
StartNow == maxAge + 1
\* Hours the clock may advance.
MaxTicks == 1
MaxNow == StartNow + MaxTicks

version == "1.0.0"

\* JavaScript null
Null == [null |-> TRUE]

\* ------------------------------------------------------------------------
\* Values
\* ------------------------------------------------------------------------
\* What fetchCurrentLevel hands to saveReading (parseXMLResponse's result).
DataAt(t, l) ==
  [waterLevel |-> l, date |-> "1. Januar 2025", time |-> "9:05",
   timestamp |-> t, graphic |-> Null]

\* Readings offered at time t: fresh, on the retention edge, one hour stale.
\* The gauge reports one level per measurement time.
Offsets == {0, maxAge, maxAge + 1}
DataInputs(t) == {DataAt(t - o, 368) : o \in Offsets}

\* The object saveReading pushes: four of data's fields.
StoredReading(data) ==
  [waterLevel |-> data.waterLevel, date |-> data.date, time |-> data.time,
   timestamp |-> data.timestamp]

\* The slot's content.  lastUpdated is <<>> for null, <<t>> for the number t.
Absent == [kind |-> "absent"]
Corrupt == [kind |-> "corrupt"]
JSONstringify(data) ==
  [kind |-> "json", version |-> data.version, readings |-> data.readings,
   lastUpdated |-> data.lastUpdated]
\* JSON.parse: throws on unparseable text
JSONparse(text) ==
  IF text.kind = "json"
  THEN [threw |-> FALSE,
        value |-> [version |-> text.version, readings |-> text.readings,
                   lastUpdated |-> text.lastUpdated]]
  ELSE [threw |-> TRUE, value |-> Null]

createEmptyStorage == [version |-> version, readings |-> <<>>, lastUpdated |-> <<>>]

\* Outcomes of the storage layer's calls: getItem and removeItem return or
\* throw; setItem returns, throws QuotaExceededError or throws another error.
\* "none" stands for a call that is not made.
ReadOutcomes == {"ok", "throw"}
WriteOutcomes == {"ok", "quota", "other"}
RetryOutcomes == {"ok", "throw"}

\* One getStorageData + setStorageData pass: the retry happens after "quota" only.
PassFaults ==
  {f \in [rd : ReadOutcomes, w1 : WriteOutcomes, w2 : RetryOutcomes \cup {"none"}] :
     (f.w2 = "none") <=> (f.w1 # "quota")}
PassThrows(f) == f.w1 = "other" \/ f.w2 = "throw"
NoPass == [rd |-> "none", w1 |-> "none", w2 |-> "none"]
\* saveReading: its own pass, then cleanOldData's pass unless the write threw.
SaveFaults ==
  {f \in [own : PassFaults, clean : PassFaults \cup {NoPass}] :
     (f.clean = NoPass) <=> PassThrows(f.own)}
NoFault(f) == f.rd \in {"ok", "none"} /\ f.w1 \in {"ok", "none"}

\* ------------------------------------------------------------------------
\* Array helpers
\* ------------------------------------------------------------------------
\* Array.prototype.sort with a comparator is stable: position of s[i] in the
\* result, equal timestamps keeping their order.
RankDesc(s, i) ==
  1 + Cardinality({j \in 1..Len(s) :
        \/ s[j].timestamp > s[i].timestamp
        \/ s[j].timestamp = s[i].timestamp /\ j < i})
\* Mutant: the comparator's operands swapped (a.timestamp - b.timestamp).
SortNewestFirst_Swapped(s) ==
  [k \in 1..Len(s) |-> s[CHOOSE i \in 1..Len(s) :
     1 + Cardinality({j \in 1..Len(s) :
           \/ s[j].timestamp < s[i].timestamp
           \/ s[j].timestamp = s[i].timestamp /\ j < i}) = k]]

\* readings.sort((a, b) => b.timestamp - a.timestamp)
SortNewestFirst(s) ==
  [k \in 1..Len(s) |-> s[CHOOSE i \in 1..Len(s) : RankDesc(s, i) = k]]

RankAsc(s, i) ==
  1 + Cardinality({j \in 1..Len(s) :
        \/ s[j].timestamp < s[i].timestamp
        \/ s[j].timestamp = s[i].timestamp /\ j < i})
\* Mutant: the result is returned in storage order, the sort left out.
SortOldestFirst_Missing(s) == s

\* filteredReadings.sort((a, b) => a.timestamp - b.timestamp)
SortOldestFirst(s) ==
  [k \in 1..Len(s) |-> s[CHOOSE i \in 1..Len(s) : RankAsc(s, i) = k]]

\* readings.slice(0, n)
Slice0(s, n) == SubSeq(s, 1, IF n < Len(s) THEN n ELSE Len(s))

\* Mutant: > in place of >=, a reading on the cutoff is dropped.
NotOlderThan_Strict(s, cutoffTime) ==
  LET keep(reading) == reading.timestamp > cutoffTime
  IN SelectSeq(s, keep)

\* readings.filter(reading => reading.timestamp >= cutoffTime)
NotOlderThan(s, cutoffTime) ==
  LET keep(reading) == reading.timestamp >= cutoffTime
  IN SelectSeq(s, keep)

\* Mutant: every load starts from an empty structure
getStorageData_Empty(s, rd) == createEmptyStorage

\* ------------------------------------------------------------------------
\* WaterLevelStorage, private part
\* ------------------------------------------------------------------------
\* Mutant: the version check left out.
getStorageData_AnyVersion(s, rd) ==
  IF rd = "throw" THEN createEmptyStorage
  ELSE IF s.kind = "absent" THEN createEmptyStorage
  ELSE LET parsed == JSONparse(s)
       IN IF parsed.threw THEN createEmptyStorage ELSE parsed.value

\* getStorageData with the slot holding s and getItem ending as rd: every
\* failure (getItem throwing, JSON.parse throwing) yields an empty store.
getStorageData(s, rd) ==
  IF rd = "throw" THEN createEmptyStorage
  ELSE IF s.kind = "absent" THEN createEmptyStorage
  ELSE LET parsed == JSONparse(s)
       IN IF parsed.threw THEN createEmptyStorage
          ELSE IF parsed.value.version # version THEN createEmptyStorage
          ELSE parsed.value

\* Mutant: the capacity retry keeps the other half, slice(floor(n / 2)).
setStorageData_KeepsOlderHalf(s, data, w1, w2) ==
  IF w1 = "ok" THEN [threw |-> FALSE, slot |-> JSONstringify(data)]
  ELSE IF w1 = "quota"
  THEN LET n == Len(data.readings)
           half == [data EXCEPT !.readings = SubSeq(data.readings, n \div 2 + 1, n)]
       IN IF w2 = "ok" THEN [threw |-> FALSE, slot |-> JSONstringify(half)]
          ELSE [threw |-> TRUE, slot |-> s]
  ELSE [threw |-> TRUE, slot |-> s]

\* Mutant: the catch block swallows an error that is not the capacity error.
setStorageData_Swallows(s, data, w1, w2) ==
  IF w1 = "ok" THEN [threw |-> FALSE, slot |-> JSONstringify(data)]
  ELSE IF w1 = "quota"
  THEN LET half == [data EXCEPT !.readings =
                      Slice0(data.readings, Len(data.readings) \div 2)]
       IN IF w2 = "ok" THEN [threw |-> FALSE, slot |-> JSONstringify(half)]
          ELSE [threw |-> TRUE, slot |-> s]
  ELSE [threw |-> FALSE, slot |-> s]

\* setStorageData(data) on slot s, setItem ending as w1 and, on the
\* capacity retry, as w2.  threw: an exception left setStorageData.
setStorageData(s, data, w1, w2) ==
  IF w1 = "ok" THEN [threw |-> FALSE, slot |-> JSONstringify(data)]
  ELSE IF w1 = "quota"
  THEN LET half == [data EXCEPT !.readings =
                      Slice0(data.readings, Len(data.readings) \div 2)]
       IN IF w2 = "ok" THEN [threw |-> FALSE, slot |-> JSONstringify(half)]
          ELSE [threw |-> TRUE, slot |-> s]
  ELSE [threw |-> TRUE, slot |-> s]

\* Mutant: no try/catch, what the body throws leaves the method.
catchAll_Missing(threw) == threw

\* try { ... } catch (error) { ... } around a whole method body: whether the
\* body threw or not, nothing leaves the method.
catchAll(threw) == FALSE

\* ------------------------------------------------------------------------
\* WaterLevelStorage, public methods.  Each yields the slot it leaves, the
\* value it returns and whether an exception escaped it.  s is the slot, t
\* is Date.now(), rd/w1/w2 are the outcomes of getItem, setItem and the
\* retried setItem.
\* ------------------------------------------------------------------------
\* Mutant: the filtered store is not written back.
cleanOldData_NotPersisted(s, t, rd, w1, w2) == [escaped |-> FALSE, slot |-> s]

cleanOldData(s, t, rd, w1, w2) ==
  LET storage == getStorageData(s, rd)
      cutoffTime == t - maxAge
      cleaned == [storage EXCEPT
                    !.readings = NotOlderThan(storage.readings, cutoffTime)]
      w == setStorageData(s, cleaned, w1, w2)
  IN [escaped |-> catchAll(w.threw), slot |-> w.slot]

\* Mutant: the limit left out.
limitEntries_Missing(readings) == readings

\* Mutant: slice(-maxEntries), the oldest entries are kept.
limitEntries_KeepsOldest(readings) ==
  IF Len(readings) > maxEntries
  THEN SubSeq(readings, Len(readings) - maxEntries + 1, Len(readings))
  ELSE readings

\* if (readings.length > maxEntries) readings = readings.slice(0, maxEntries)
limitEntries(readings) ==
  IF Len(readings) > maxEntries THEN Slice0(readings, maxEntries) ELSE readings

saveReading(s, t, data, rd, w1, w2, crd, cw1, cw2) ==
  LET storage == getStorageData(s, rd)
      pushed == Append(storage.readings, StoredReading(data))
      sorted == SortNewestFirst(pushed)
      limited == limitEntries(sorted)
      stamped == [storage EXCEPT !.readings = limited, !.lastUpdated = <<t>>]
      w == setStorageData(s, stamped, w1, w2)
      c == cleanOldData(w.slot, t, crd, cw1, cw2)
  IN IF w.threw
     THEN [escaped |-> catchAll(TRUE), ret |-> FALSE, slot |-> w.slot]
     ELSE IF c.escaped
     THEN [escaped |-> catchAll(TRUE), ret |-> FALSE, slot |-> c.slot]
     ELSE [escaped |-> FALSE, ret |-> TRUE, slot |-> c.slot]

getHistoricalData(s, t, hours, rd) ==
  LET storage == getStorageData(s, rd)
      cutoffTime == t - hours
      filteredReadings == NotOlderThan(storage.readings, cutoffTime)
  IN [escaped |-> FALSE, ret |-> SortOldestFirst(filteredReadings)]

getLatestReading(s, rd) ==
  LET storage == getStorageData(s, rd)
  IN [escaped |-> FALSE,
      ret |-> IF Len(storage.readings) > 0 THEN storage.readings[1] ELSE Null]

\* exportData: the store as text.  JSON.stringify(storage, null, 2) differs
\* from the stored text in white space only, which the slot's form leaves out.
exportData(s, rd) ==
  LET storage == getStorageData(s, rd)
  IN [escaped |-> FALSE, ret |-> JSONstringify(storage)]

\* getStatistics: the counts and dates of the result (new Date(t) is t); the
\* two byte sizes are left out.
getStatistics(s, rd) ==
  LET storage == getStorageData(s, rd)
      n == Len(storage.readings)
  IN [escaped |-> FALSE,
      ret |-> [totalReadings |-> n,
               oldestReading |-> IF n > 0 THEN <<storage.readings[n].timestamp>>
                                 ELSE <<>>,
               newestReading |-> IF n > 0 THEN <<storage.readings[1].timestamp>>
                                 ELSE <<>>,
               lastUpdated |-> storage.lastUpdated]]

\* Mutant: a blob that does not parse to the current version is replaced by
\* an empty store.
SlotAfterRead_Resets(s, rd) ==
  IF rd = "ok" /\ s.kind # "absent" /\ getStorageData(s, rd) = createEmptyStorage
  THEN JSONstringify(createEmptyStorage)
  ELSE s

\* The slot after getStorageData: getItem is its only call on localStorage,
\* whatever it returns or throws.
SlotAfterRead(s, rd) == s

\* rm is the outcome of localStorage.removeItem
clearAll(s, rm) ==
  IF rm = "ok" THEN [escaped |-> FALSE, ret |-> TRUE, slot |-> Absent]
  ELSE [escaped |-> catchAll(TRUE), ret |-> FALSE, slot |-> s]

\* ------------------------------------------------------------------------
\* The classifier
\* ------------------------------------------------------------------------
NORMAL_max == 400
WARNING_max == 800

\* Mutant: <= in place of <, a level on a threshold falls into the lower tier.
getAlertLevel_Inclusive(waterLevel) ==
  IF waterLevel <= NORMAL_max THEN "NORMAL"
  ELSE IF waterLevel <= WARNING_max THEN "WARNING"
  ELSE "DANGER"

getAlertLevel(waterLevel) ==
  IF waterLevel < NORMAL_max THEN "NORMAL"
  ELSE IF waterLevel < WARNING_max THEN "WARNING"
  ELSE "DANGER"

\* ------------------------------------------------------------------------
\* Strings (js/api.js).  A JavaScript string is the sequence of its
\* characters, so that trim, replace, parseFloat and the regular expressions
\* are computed as the engine computes them.
\* ------------------------------------------------------------------------
Str_Digits == <<"0", "1", "2", "3", "4", "5", "6", "7", "8", "9">>
\* \d
Digits == {Str_Digits[i] : i \in DOMAIN Str_Digits}
DigitValue(c) == (CHOOSE i \in DOMAIN Str_Digits : Str_Digits[i] = c) - 1
AsciiLetters ==
  {"a", "b", "c", "d", "e", "f", "g", "h", "i", "j", "k", "l", "m", "n", "o",
   "p", "q", "r", "s", "t", "u", "v", "w", "x", "y", "z", "A", "B", "C", "D",
   "E", "F", "G", "H", "I", "J", "K", "L", "M", "N", "O", "P", "Q", "R", "S",
   "T", "U", "V", "W", "X", "Y", "Z"}
\* \w: ASCII only, no umlauts
WordChars == AsciiLetters \cup Digits \cup {"_"}
\* \s, and what trim strips (the inputs hold no other white space)
WhiteSpace == {" "}

SetMin(S) == CHOOSE m \in S : \A x \in S : m <= x
SetMax(S) == CHOOSE m \in S : \A x \in S : m >= x
\* str[i], or no character beyond the ends
CharAt(str, i) == IF i \in DOMAIN str THEN str[i] ELSE ""
\* The characters a..b of str that exist
Substring(str, a, b) ==
  SubSeq(str, IF a < 1 THEN 1 ELSE a, IF b > Len(str) THEN Len(str) ELSE b)
\* String.prototype.trim
Trim(str) ==
  LET keep == {i \in DOMAIN str : str[i] \notin WhiteSpace}
  IN IF keep = {} THEN <<>> ELSE SubSeq(str, SetMin(keep), SetMax(keep))
\* String.prototype.replace(from, to) with a string pattern: the first
\* occurrence only
ReplaceFirst(str, from, to) ==
  LET hits == {i \in DOMAIN str : str[i] = from}
  IN IF hits = {} THEN str ELSE [str EXCEPT ![SetMin(hits)] = to]
\* The last index of the longest run of characters of class that starts at i
\* (i - 1 when str[i] is not in class): what a greedy class+ consumes.
RunEnd(str, i, class) ==
  LET stops == {j \in i..Len(str) : str[j] \notin class}
  IN IF stops = {} THEN Len(str) ELSE SetMin(stops) - 1
\* String.prototype.includes
Includes(str, sub) ==
  \E i \in 0..(Len(str) - Len(sub)) : SubSeq(str, i + 1, i + Len(sub)) = sub

RECURSIVE parseInt(_)
\* parseInt of a run of decimal digits (a \d group of a match)
parseInt(digits) ==
  IF digits = <<>> THEN 0
  ELSE 10 * parseInt(SubSeq(digits, 1, Len(digits) - 1))
         + DigitValue(digits[Len(digits)])
RECURSIVE Pow10(_)
Pow10(k) == IF k = 0 THEN 1 ELSE 10 * Pow10(k - 1)

\* parseFloat: leading white space is skipped, then the longest prefix that
\* is a decimal literal ([+-] digits [. digits], or [+-] . digits) is the
\* value and whatever follows is ignored; NaN when there is no such prefix.
\* The value is the exact fraction num / den.  (Exponents and Infinity need
\* the letters e, E, I, which no input of the model has.)
NaN == [nan |-> TRUE]
parseFloat(string) ==
  LET lead == RunEnd(string, 1, WhiteSpace)
      str == Substring(string, lead + 1, Len(string))
      signed == CharAt(str, 1) \in {"+", "-"}
      first == IF signed THEN 2 ELSE 1
      intEnd == RunEnd(str, first, Digits)
      hasDot == CharAt(str, intEnd + 1) = "."
      fracEnd == IF hasDot THEN RunEnd(str, intEnd + 2, Digits) ELSE intEnd + 1
      int == Substring(str, first, intEnd)
      frac == Substring(str, intEnd + 2, fracEnd)
      magnitude == parseInt(int) * Pow10(Len(frac)) + parseInt(frac)
  IN IF int = <<>> /\ frac = <<>> THEN NaN
     ELSE [nan |-> FALSE,
           num |-> IF CharAt(str, 1) = "-" THEN 0 - magnitude ELSE magnitude,
           den |-> Pow10(Len(frac))]
\* Math.round of num / den: the nearest integer, halves towards +Infinity
MathRound(num, den) == (2 * num + den) \div (2 * den)

\* An Error's message: the pieces it was built from, each a literal of the
\* code, a string taken from the input, or a number.
Lit(text) == [lit |-> text]
Embedded(str) == [str |-> str]
Num(n) == [num |-> n]

\* The three texts isCorsError looks for, and their characters
Str_CORS == <<"C", "O", "R", "S">>
Str_NetworkRequestFailed ==
  <<"N", "e", "t", "w", "o", "r", "k", " ", "r", "e", "q", "u", "e", "s", "t",
    " ", "f", "a", "i", "l", "e", "d">>
Str_FailedToFetch ==
  <<"F", "a", "i", "l", "e", "d", " ", "t", "o", " ", "f", "e", "t", "c", "h">>
TermChars(term) ==
  CASE term = "CORS" -> Str_CORS
    [] term = "Network request failed" -> Str_NetworkRequestFailed
    [] term = "Failed to fetch" -> Str_FailedToFetch
\* The literals of the model that contain one of the three texts
LiteralIncludes ==
  {<<"Failed to fetch", "Failed to fetch">>,
   <<"Network request failed", "Network request failed">>,
   <<"Failed to fetch data after ", "Failed to fetch">>}
\* message.includes(term)
MessageIncludes(message, term) ==
  \E i \in DOMAIN message :
    \/ "lit" \in DOMAIN message[i]
         /\ <<message[i].lit, term>> \in LiteralIncludes
    \/ "str" \in DOMAIN message[i]
         /\ Includes(message[i].str, TermChars(term))

\* What a call returned or threw
Returned(value) == [threw |-> FALSE, value |-> value]
\* new Error(message), thrown
Threw(message) == [threw |-> TRUE, name |-> "Error", message |-> message]

\* ------------------------------------------------------------------------
\* RheinPegelAPI: the parser (js/api.js)
\* ------------------------------------------------------------------------
RangeMin == 0
RangeMax == 2000

\* convertGermanDecimal with the range check rejecting instead of warning
convertGermanDecimal_Rejects(germanNumber) ==
  LET meters == parseFloat(ReplaceFirst(Trim(germanNumber), ",", "."))
      cm == MathRound(meters.num * 100, meters.den)
  IN IF meters.nan \/ cm < RangeMin \/ cm > RangeMax
     THEN Threw(<<Lit("Number conversion failed: "),
                  Lit("Invalid number format: "), Embedded(germanNumber)>>)
     ELSE Returned(cm)
\* convertGermanDecimal(germanNumber): metres with a decimal comma to
\* centimetres.  Outside [RangeMin, RangeMax] it only logs a warning.
convertGermanDecimal(germanNumber) ==
  LET meters == parseFloat(ReplaceFirst(Trim(germanNumber), ",", "."))
  IN IF meters.nan
     THEN Threw(<<Lit("Number conversion failed: "),
                  Lit("Invalid number format: "), Embedded(germanNumber)>>)
     ELSE Returned(MathRound(meters.num * 100, meters.den))

Str_Month(name) ==
  CASE name = "Januar" -> <<"J", "a", "n", "u", "a", "r">>
    [] name = "Februar" -> <<"F", "e", "b", "r", "u", "a", "r">>
    [] name = "März" -> <<"M", "ä", "r", "z">>
    [] name = "April" -> <<"A", "p", "r", "i", "l">>
    [] name = "Mai" -> <<"M", "a", "i">>
    [] name = "Juni" -> <<"J", "u", "n", "i">>
    [] name = "Juli" -> <<"J", "u", "l", "i">>
    [] name = "August" -> <<"A", "u", "g", "u", "s", "t">>
    [] name = "September" -> <<"S", "e", "p", "t", "e", "m", "b", "e", "r">>
    [] name = "Oktober" -> <<"O", "k", "t", "o", "b", "e", "r">>
    [] name = "November" -> <<"N", "o", "v", "e", "m", "b", "e", "r">>
    [] name = "Dezember" -> <<"D", "e", "z", "e", "m", "b", "e", "r">>
\* monthNames: the twelve names in the order of their indices 0..11
monthNames ==
  <<"Januar", "Februar", "März", "April", "Mai", "Juni", "Juli", "August",
    "September", "Oktober", "November", "Dezember">>
\* monthNames[monthName], as a set: empty when the lookup is undefined
MonthIndex(monthName) ==
  {i - 1 : i \in {j \in DOMAIN monthNames : Str_Month(monthNames[j]) = monthName}}

\* dateStr.match(/(\d+)\.\s+(\w+)\s+(\d{4})/): the leftmost match.  Every
\* quantifier is greedy and is followed by a character outside its class,
\* so each group is a maximal run.  The pattern is not anchored.
DateMatchAt(str, i) ==
  LET dayEnd == RunEnd(str, i, Digits)
      gap1End == RunEnd(str, dayEnd + 2, WhiteSpace)
      wordEnd == RunEnd(str, gap1End + 1, WordChars)
      gap2End == RunEnd(str, wordEnd + 1, WhiteSpace)
      year == Substring(str, gap2End + 1, gap2End + 4)
  IN [matched |-> /\ dayEnd >= i
                  /\ CharAt(str, dayEnd + 1) = "."
                  /\ gap1End >= dayEnd + 2
                  /\ wordEnd >= gap1End + 1
                  /\ gap2End >= wordEnd + 1
                  /\ Len(year) = 4
                  /\ \A k \in DOMAIN year : year[k] \in Digits,
      day |-> Substring(str, i, dayEnd),
      monthName |-> Substring(str, gap1End + 1, wordEnd),
      year |-> year]
DateMatch(str) ==
  LET starts == {i \in DOMAIN str : DateMatchAt(str, i).matched}
  IN IF starts = {} THEN [matched |-> FALSE]
     ELSE DateMatchAt(str, SetMin(starts))

\* timeStr.match(/(\d{1,2}):(\d{2})/): the leftmost match, two hour digits
\* before one.  Not anchored either.
TimeMatchAt(str, i) ==
  LET two == /\ CharAt(str, i) \in Digits /\ CharAt(str, i + 1) \in Digits
             /\ CharAt(str, i + 2) = ":"
             /\ CharAt(str, i + 3) \in Digits /\ CharAt(str, i + 4) \in Digits
      one == /\ CharAt(str, i) \in Digits /\ CharAt(str, i + 1) = ":"
             /\ CharAt(str, i + 2) \in Digits /\ CharAt(str, i + 3) \in Digits
      colon == IF two THEN i + 2 ELSE i + 1
  IN [matched |-> two \/ one,
      hours |-> Substring(str, i, colon - 1),
      minutes |-> Substring(str, colon + 1, colon + 2)]
TimeMatch(str) ==
  LET starts == {i \in DOMAIN str : TimeMatchAt(str, i).matched}
  IN IF starts = {} THEN [matched |-> FALSE]
     ELSE TimeMatchAt(str, SetMin(starts))

\* new Date(year, month, day, hours, minutes).getTime(), in minutes of local
\* civil time since 1 January 1970, 0:00.  month is an index 0..11; day,
\* hours and minutes beyond their ranges carry over, as in Date; a year
\* 0..99 means 1900 + year.
EpochYear == 1970
IsLeapYear(y) == (y % 4 = 0 /\ y % 100 # 0) \/ y % 400 = 0
\* Leap years before year y
LeapYearsBefore(y) == ((y - 1) \div 4) - ((y - 1) \div 100) + ((y - 1) \div 400)
DaysBeforeMonth ==
  <<0, 31, 59, 90, 120, 151, 181, 212, 243, 273, 304, 334>>
DateGetTime(year, month, day, hours, minutes) ==
  LET y == IF year \in 0..99 THEN 1900 + year ELSE year
      days == 365 * (y - EpochYear)
                + LeapYearsBefore(y) - LeapYearsBefore(EpochYear)
                + DaysBeforeMonth[month + 1]
                + (IF month >= 2 /\ IsLeapYear(y) THEN 1 ELSE 0)
                + day - 1
  IN (days * 24 + hours) * 60 + minutes

\* The try block of parseGermanDateTime
reconstruct(dateStr, timeStr) ==
  LET dateMatch == DateMatch(dateStr)
      timeMatch == TimeMatch(timeStr)
      month == MonthIndex(dateMatch.monthName)
  IN IF ~dateMatch.matched
     THEN Threw(<<Lit("Invalid date format: "), Embedded(dateStr)>>)
     ELSE IF month = {}
     THEN Threw(<<Lit("Unknown month: "), Embedded(dateMatch.monthName)>>)
     ELSE IF ~timeMatch.matched
     THEN Threw(<<Lit("Invalid time format: "), Embedded(timeStr)>>)
     ELSE Returned(DateGetTime(parseInt(dateMatch.year),
                               CHOOSE m \in month : TRUE,
                               parseInt(dateMatch.day),
                               parseInt(timeMatch.hours),
                               parseInt(timeMatch.minutes)))
\* parseGermanDateTime with no catch: a failure reaches the caller
parseGermanDateTime_Rethrows(dateStr, timeStr, t) == reconstruct(dateStr, timeStr)
\* parseGermanDateTime(dateStr, timeStr) at time t: whatever the try block
\* throws is caught and Date.now() is returned instead.
parseGermanDateTime(dateStr, timeStr, t) ==
  LET r == reconstruct(dateStr, timeStr)
  IN IF r.threw THEN Returned(t) ELSE r

\* The document DOMParser.parseFromString(xmlString, 'text/xml') returns: a
\* parsererror document, or for each of the four elements the text of the
\* first one, <<>> when there is none (querySelector(..)?.textContent is
\* undefined) and <<text>> otherwise.
Undefined == <<>>
TextContent(str) == <<str>>
\* !x for x undefined or a string
Falsy(x) == x = Undefined \/ x = TextContent(<<>>)
\* new Error(`XML parsing failed: ${error.message}`)
XMLParsingFailed(message) == Threw(<<Lit("XML parsing failed: ")>> \o message)

\* parseXMLResponse(xmlString) at time t, on the document made of xmlString
parseXMLResponse(doc, t) ==
  IF doc.parsererror
  THEN XMLParsingFailed(<<Lit("XML parsing error: ")>>)
  ELSE IF Falsy(doc.Datum) \/ Falsy(doc.Uhrzeit) \/ Falsy(doc.Pegel)
  THEN XMLParsingFailed(<<Lit("Missing required fields in XML response")>>)
  ELSE LET datum == doc.Datum[1]
           uhrzeit == doc.Uhrzeit[1]
           grafik == doc.Grafik
           waterLevel == convertGermanDecimal(doc.Pegel[1])
           timestamp == parseGermanDateTime(datum, uhrzeit, t)
       IN IF waterLevel.threw THEN XMLParsingFailed(waterLevel.message)
          ELSE IF timestamp.threw THEN XMLParsingFailed(timestamp.message)
          ELSE Returned([waterLevel |-> waterLevel.value,
                         date |-> Trim(datum),
                         time |-> Trim(uhrzeit),
                         timestamp |-> timestamp.value,
                         graphic |-> IF Falsy(grafik) \/ Trim(grafik[1]) = <<>>
                                     THEN Null
                                     ELSE [string |-> Trim(grafik[1])]])

\* ------------------------------------------------------------------------
\* RheinPegelAPI: the fetch client (js/api.js)
\* ------------------------------------------------------------------------
maxRetries == 3
retryDelay == 1000

\* What fetch(url) can reject with: the TypeError browsers raise for a
\* blocked or unreachable request (in two wordings isCorsError knows and
\* one it does not), and the AbortError of the timeout.
FailedToFetch == [threw |-> TRUE, name |-> "TypeError",
                  message |-> <<Lit("Failed to fetch")>>]
NetworkRequestFailed == [threw |-> TRUE, name |-> "TypeError",
                         message |-> <<Lit("Network request failed")>>]
NetworkError == [threw |-> TRUE, name |-> "TypeError",
                 message |-> <<Lit("NetworkError when attempting to fetch resource.")>>]
AbortError == [threw |-> TRUE, name |-> "AbortError",
               message |-> <<Lit("The user aborted a request.")>>]
FetchErrors == {FailedToFetch, NetworkRequestFailed, NetworkError, AbortError}

\* response.ok
ResponseOk(status) == status \in 200..299
Statuses == {200, 404, 500}

\* Documents the upstream can answer with: the payload of the interface
\* description, one without Pegel, and one whose Pegel is a word.
Str_Datum == <<"1", ".", " ", "J", "a", "n", "u", "a", "r", " ", "2", "0", "2", "5">>
Str_Uhrzeit == <<"9", ":", "0", "5">>
Str_Pegel == <<"4", ",", "0", "0">>
XmlDoc(datum, uhrzeit, pegel, grafik) ==
  [parsererror |-> FALSE, Datum |-> datum, Uhrzeit |-> uhrzeit,
   Pegel |-> pegel, Grafik |-> grafik]
GoodDoc ==
  XmlDoc(TextContent(Str_Datum), TextContent(Str_Uhrzeit),
         TextContent(Str_Pegel), Undefined)
NoPegelDoc ==
  XmlDoc(TextContent(Str_Datum), TextContent(Str_Uhrzeit), Undefined, Undefined)
WordPegelDoc ==
  XmlDoc(TextContent(Str_Datum), TextContent(Str_Uhrzeit),
         TextContent(Str_CORS), Undefined)
Bodies == {GoodDoc, NoPegelDoc, WordPegelDoc}

\* How the awaited fetch of one attempt can end: rejected, or answered with
\* a status and, when the status is 2xx, a body.
FetchOutcomes ==
  {[kind |-> "reject", error |-> e] : e \in FetchErrors}
    \cup {[kind |-> "response", status |-> s, body |-> GoodDoc] :
            s \in {c \in Statuses : ~ResponseOk(c)}}
    \cup {[kind |-> "response", status |-> s, body |-> b] :
            s \in {c \in Statuses : ResponseOk(c)}, b \in Bodies}

\* isCorsError(error)
isCorsError(error) ==
  \/ MessageIncludes(error.message, "CORS")
  \/ MessageIncludes(error.message, "Network request failed")
  \/ error.name = "TypeError" /\ MessageIncludes(error.message, "Failed to fetch")

\* Line 48 always taking the direct URL
requestUrl_Direct(flag) == "apiUrl"
\* Line 48: the URL of an attempt
requestUrl(flag) == IF flag THEN "corsProxyUrl + apiUrl" ELSE "apiUrl"

\* The try block of one attempt, from the settled fetch on: what it returns
\* or throws at time t.  parseXMLResponse is called inside the try.
attemptBody(outcome, t) ==
  IF outcome.kind = "reject" THEN outcome.error
  ELSE IF ~ResponseOk(outcome.status)
  THEN Threw(<<Lit("HTTP error! status: "), Num(outcome.status)>>)
  ELSE parseXMLResponse(outcome.body, t)

\* Line 72 keeping the first error
recordError_KeepsFirst(lastError, error) ==
  IF lastError = Null THEN error ELSE lastError
\* Line 72: lastError = error
recordError(lastError, error) == error

\* Lines 76-79 never engaging the proxy
engageProxy_Never(flag, error, attempt) == flag
\* The latch without the test for the first attempt
engageProxy_AnyAttempt(flag, error, attempt) ==
  IF isCorsError(error) /\ ~flag THEN TRUE ELSE flag
\* Lines 76-79: useCorsProxy after the catch block of an attempt
engageProxy(flag, error, attempt) ==
  IF isCorsError(error) /\ ~flag /\ attempt = 1 THEN TRUE ELSE flag

\* The wait not growing with the attempt
backoff_Constant(attempt) == retryDelay
\* this.retryDelay * attempt: the wait after a failed attempt, in ms
backoff(attempt) == retryDelay * attempt

\* Line 89: the error fetchCurrentLevel rejects with
FetchExhausted(lastError) ==
  Threw(<<Lit("Failed to fetch data after "), Num(maxRetries),
          Lit(" attempts: ")>> \o lastError.message)

\* No fetchCurrentLevel call yet.  (switched notes that enableCorsProxy or
\* disableCorsProxy was called while the call was in progress.)
NoCall ==
  [pc |-> "idle", attempt |-> 0, url |-> "", lastError |-> Null,
   result |-> Null, delay |-> 0, waited |-> 0, switched |-> FALSE]

\* ------------------------------------------------------------------------
\* WaterLevelChart (unnamed/part_002): the four data series and the colour
\* of the level series.  The program has maxDataPoints = 144; the model
\* scales it.
\* ------------------------------------------------------------------------
maxDataPoints == 2
WarningLine == 400
DangerLine == 800
HighlightWarning == 400
HighlightDanger == 800

\* Array(n).fill(v)
Fill(n, v) == [i \in 1..n |-> v]
\* array.splice(0, removeCount): what is left of the array
Splice0(s, removeCount) == SubSeq(s, removeCount + 1, Len(s))

prepareChartData(historicalData) ==
  LET sortedData == SortOldestFirst(historicalData)
      dataLength == Len(sortedData)
  IN [labels |-> [i \in 1..dataLength |-> sortedData[i].timestamp],
      values |-> [i \in 1..dataLength |-> sortedData[i].waterLevel],
      warningLine |-> Fill(dataLength, WarningLine),
      dangerLine |-> Fill(dataLength, DangerLine)]

\* new WaterLevelChart(canvas).initialize(historicalData)
initializeChart(historicalData) ==
  LET chartData == prepareChartData(historicalData)
  IN [labels |-> chartData.labels, values |-> chartData.values,
      warningLine |-> chartData.warningLine,
      dangerLine |-> chartData.dangerLine, borderColor |-> "#2196F3"]

\* A WaterLevelChart after destroy(): its this.chart is null
DestroyedChart == [destroyed |-> TRUE]

\* updateChart(newData) up to its call of Chart.update; nothing is done
\* without this.chart
updateChart(c, newData) ==
  IF c = DestroyedChart THEN c
  ELSE
  LET labels == Append(c.labels, newData.timestamp)
      values == Append(c.values, newData.waterLevel)
      dataLength == Len(labels)
      removeCount == IF dataLength > maxDataPoints
                     THEN dataLength - maxDataPoints ELSE 0
  IN [c EXCEPT !.labels = Splice0(labels, removeCount),
               !.values = Splice0(values, removeCount),
               !.warningLine = Splice0(Fill(dataLength, WarningLine), removeCount),
               !.dangerLine = Splice0(Fill(dataLength, DangerLine), removeCount)]

\* Mutant: the bands open at their lower ends
highlightAlertZone_Exclusive(c, currentLevel) ==
  IF c = DestroyedChart THEN c
  ELSE
  [c EXCEPT !.borderColor =
     IF currentLevel > HighlightDanger THEN "#F44336"
     ELSE IF currentLevel > HighlightWarning THEN "#FF9800"
     ELSE "#2196F3"]

\* highlightAlertZone(currentLevel) up to its call of Chart.update; nothing
\* is done without this.chart
highlightAlertZone(c, currentLevel) ==
  IF c = DestroyedChart THEN c
  ELSE
  [c EXCEPT !.borderColor =
     IF currentLevel >= HighlightDanger THEN "#F44336"
     ELSE IF currentLevel >= HighlightWarning THEN "#FF9800"
     ELSE "#2196F3"]

\* ------------------------------------------------------------------------
\* RheinPegelApp: the fetch cycle (js/storage.js).  The operators work on a
\* record p of the slot, AppState, the page, the chart and the calls made
\* so far; the page has every element cacheElements looks up.
\* ------------------------------------------------------------------------
Called(p, name, arg) == [p EXCEPT !.trace = Append(@, [call |-> name, arg |-> arg])]

setLoading(p, isLoading) ==
  Called([p EXCEPT !.AppState.isLoading = isLoading,
                   !.display.loadingOverlayHidden = ~isLoading,
                   !.display.refreshBtnDisabled = isLoading],
         IF isLoading THEN "setLoading(true)" ELSE "setLoading(false)", Null)

updateDisplay(p, data) ==
  Called([p EXCEPT !.display.currentLevel = data.waterLevel,
                   !.display.lastUpdate = <<data.date, " ", data.time>>,
                   !.display.alertLevel = getAlertLevel(data.waterLevel)],
         "updateDisplay", data)

\* handleError without the fallback to the stored reading
handleError_NoFallback(p, error, rd) ==
  Called([p EXCEPT !.AppState.hasError = TRUE,
                   !.AppState.errorMessage = error.message,
                   !.display.errorToast = error.message],
         "handleError", Null)
\* handleError(error), with rd the outcome of the store's getItem
handleError(p, error, rd) ==
  LET marked == Called([p EXCEPT !.AppState.hasError = TRUE,
                                 !.AppState.errorMessage = error.message,
                                 !.display.errorToast = error.message],
                       "handleError", Null)
      latestReading == getLatestReading(p.slot, rd).ret
  IN IF latestReading # Null
     THEN [updateDisplay(marked, latestReading) EXCEPT
             !.display.successToast = "Zeige zwischengespeicherte Daten"]
     ELSE marked

\* The AppState of a successful cycle without the reset of hasError
recordSuccess_KeepsError(state, data) ==
  [state EXCEPT !.currentLevel = data.waterLevel, !.lastUpdate = data.timestamp]
\* The AppState assignments that end the try block of fetchAndUpdate
recordSuccess(state, data) ==
  [state EXCEPT !.currentLevel = data.waterLevel, !.lastUpdate = data.timestamp,
                !.hasError = FALSE]

\* What Chart.update throws when it throws
ChartError == Threw(<<Lit("Chart.update failed")>>)
\* Which call of Chart.update throws, if any
ChartOutcomes == {"ok", "updateChart", "highlightAlertZone"}

\* The try block of fetchAndUpdate from the resolved fetchCurrentLevel on, at
\* time t, with f the storage faults of saveReading and cf the outcome of
\* the chart: the state it leaves and whether it threw.
tryBlock(p, t, data, f, cf) ==
  LET m == saveReading(p.slot, t, data, f.own.rd, f.own.w1, f.own.w2,
                       f.clean.rd, f.clean.w1, f.clean.w2)
      saved == Called([p EXCEPT !.slot = m.slot], "saveReading", data)
      shown == updateDisplay(saved, data)
      drawn == Called([shown EXCEPT !.chart = updateChart(shown.chart, data)],
                      "updateChart", data)
      lit == Called([drawn EXCEPT !.chart = highlightAlertZone(drawn.chart, data.waterLevel)],
                    "highlightAlertZone", data)
      done == IF p.chart = Null THEN shown ELSE lit
  IN IF m.escaped THEN [threw |-> TRUE, p |-> saved]
     ELSE IF p.chart # Null /\ cf = "updateChart" THEN [threw |-> TRUE, p |-> drawn]
     ELSE IF p.chart # Null /\ cf = "highlightAlertZone" THEN [threw |-> TRUE, p |-> lit]
     ELSE [threw |-> FALSE,
           p |-> [done EXCEPT !.AppState = recordSuccess(done.AppState, data)]]

\* fetchAndUpdate up to its await
fetchAndUpdateStart(p) == setLoading(p, TRUE)
\* Mutant: setLoading(false) closes the try block instead of a finally
fetchAndUpdateResolved_NoFinally(p, t, data, f, cf, rd) ==
  LET r == tryBlock(p, t, data, f, cf)
  IN IF r.threw THEN handleError(r.p, ChartError, rd) ELSE setLoading(r.p, FALSE)
\* fetchAndUpdate after fetchCurrentLevel resolved with data
fetchAndUpdateResolved(p, t, data, f, cf, rd) ==
  LET r == tryBlock(p, t, data, f, cf)
  IN setLoading(IF r.threw THEN handleError(r.p, ChartError, rd) ELSE r.p, FALSE)
\* fetchAndUpdate after fetchCurrentLevel rejected with error
fetchAndUpdateRejected(p, error, rd) ==
  setLoading(handleError(p, error, rd), FALSE)

\* The state of each component before any call
ConvertIdle == pegelText = <<>> /\ centimeters = Null
ParserIdle == xmlDoc = Null /\ parseResult = Null
FetchIdle == useCorsProxy = FALSE /\ fc = NoCall /\ attempts = <<>> /\ calls = 0
StoreIdle == slot = Absent /\ now = StartNow /\ last = [op |-> "new"]
ClassifierIdle == level = 0 /\ tier = "none"

\* The AppState literal
InitialAppState ==
  [currentLevel |-> Null, lastUpdate |-> Null, isLoading |-> FALSE,
   hasError |-> FALSE, errorMessage |-> Null, autoRefreshEnabled |-> TRUE,
   refreshInterval |-> 60000, refreshTimer |-> Null]
\* The page as loaded: nothing shown yet
InitialDisplay ==
  [currentLevel |-> Null, lastUpdate |-> Null, alertLevel |-> Null,
   errorToast |-> Null, successToast |-> Null,
   loadingOverlayHidden |-> FALSE, refreshBtnDisabled |-> FALSE]
\* No initialize yet, no fetchAndUpdate awaiting fetchCurrentLevel, no timeout
\* set, no interval running
NoCycle ==
  [initialized |-> FALSE, pending |-> <<>>, started |-> 0, reenable |-> 0,
   intervals |-> 0]
AppIdle ==
  /\ AppState = InitialAppState
  /\ display = InitialDisplay
  /\ chart = Null
  /\ cycle = NoCycle
  /\ trace = <<>>

\* ------------------------------------------------------------------------
\* The store as a state machine
\* ------------------------------------------------------------------------
\* A blob written under an earlier schema version.
OldVersionBlob ==
  [kind |-> "json", version |-> "0.9.0",
   readings |-> <<StoredReading(DataAt(StartNow, 368))>>, lastUpdated |-> <<StartNow>>]

InitSlots == {Absent, Corrupt, OldVersionBlob}

\* getHistoricalData's argument: nothing but now, the default window, one more
HoursInputs == {0, DefaultHours, DefaultHours + 1}

Init ==
  /\ slot \in InitSlots
  /\ now = StartNow
  /\ last = [op |-> "new"]
  /\ level = 0
  /\ tier = "none"
  /\ ConvertIdle /\ ParserIdle /\ FetchIdle /\ AppIdle

\* The clock advances between calls.
Tick ==
  /\ now < MaxNow
  /\ now' = now + 1
  /\ last' = [op |-> "tick"]
  /\ UNCHANGED <<slot, level, tier, apiVars, appVars>>

SaveReading ==
  \E data \in DataInputs(now), f \in SaveFaults :
    LET m == saveReading(slot, now, data, f.own.rd, f.own.w1, f.own.w2,
                         f.clean.rd, f.clean.w1, f.clean.w2)
    IN /\ slot' = m.slot
       /\ last' = [op |-> "saveReading", arg |-> data, ret |-> m.ret,
                   escaped |-> m.escaped, w1 |-> f.own.w1,
                   held |-> Len(getStorageData(slot, "ok").readings),
                   faultFree |-> (NoFault(f.own) /\ NoFault(f.clean))]
       /\ UNCHANGED <<now, level, tier, apiVars, appVars>>

GetHistoricalData ==
  \E hours \in HoursInputs, rd \in ReadOutcomes :
    LET m == getHistoricalData(slot, now, hours, rd)
    IN /\ last' = [op |-> "getHistoricalData", arg |-> hours, ret |-> m.ret,
                   escaped |-> m.escaped, faultFree |-> (rd = "ok")]
       /\ slot' = SlotAfterRead(slot, rd)
       /\ UNCHANGED <<now, level, tier, apiVars, appVars>>

GetLatestReading ==
  \E rd \in ReadOutcomes :
    LET m == getLatestReading(slot, rd)
    IN /\ last' = [op |-> "getLatestReading", ret |-> m.ret,
                   escaped |-> m.escaped, faultFree |-> (rd = "ok")]
       /\ slot' = SlotAfterRead(slot, rd)
       /\ UNCHANGED <<now, level, tier, apiVars, appVars>>

ExportData ==
  \E rd \in ReadOutcomes :
    LET m == exportData(slot, rd)
    IN /\ last' = [op |-> "exportData", ret |-> m.ret,
                   escaped |-> m.escaped, faultFree |-> (rd = "ok")]
       /\ slot' = SlotAfterRead(slot, rd)
       /\ UNCHANGED <<now, level, tier, apiVars, appVars>>

GetStatistics ==
  \E rd \in ReadOutcomes :
    LET m == getStatistics(slot, rd)
    IN /\ last' = [op |-> "getStatistics", ret |-> m.ret,
                   escaped |-> m.escaped, faultFree |-> (rd = "ok")]
       /\ slot' = SlotAfterRead(slot, rd)
       /\ UNCHANGED <<now, level, tier, apiVars, appVars>>

CleanOldData ==
  \E f \in PassFaults :
    LET m == cleanOldData(slot, now, f.rd, f.w1, f.w2)
    IN /\ slot' = m.slot
       /\ last' = [op |-> "cleanOldData", escaped |-> m.escaped,
                   faultFree |-> NoFault(f)]
       /\ UNCHANGED <<now, level, tier, apiVars, appVars>>

ClearAll ==
  \E rm \in RetryOutcomes :
    LET m == clearAll(slot, rm)
    IN /\ slot' = m.slot
       /\ last' = [op |-> "clearAll", ret |-> m.ret, escaped |-> m.escaped,
                   faultFree |-> (rm = "ok")]
       /\ UNCHANGED <<now, level, tier, apiVars, appVars>>

Next ==
  \/ Tick
  \/ SaveReading
  \/ GetHistoricalData
  \/ GetLatestReading
  \/ ExportData
  \/ GetStatistics
  \/ CleanOldData
  \/ ClearAll

Spec == Init /\ [][Next]_vars

\* ------------------------------------------------------------------------
\* The store's writing methods with the storage layer observed: last also
\* tells how each getItem and setItem of the call ended. The clock stands
\* still; stale readings come from the offered timestamps.
\* ------------------------------------------------------------------------
SaveReadingObserved ==
  \E data \in DataInputs(now), f \in SaveFaults :
    LET m == saveReading(slot, now, data, f.own.rd, f.own.w1, f.own.w2,
                         f.clean.rd, f.clean.w1, f.clean.w2)
    IN /\ slot' = m.slot
       /\ last' = [op |-> "saveReading", arg |-> data, ret |-> m.ret,
                   escaped |-> m.escaped,
                   held |-> Len(getStorageData(slot, "ok").readings),
                   faults |-> f]
       /\ UNCHANGED <<now, level, tier, apiVars, appVars>>

CleanOldDataObserved ==
  \E f \in PassFaults :
    LET m == cleanOldData(slot, now, f.rd, f.w1, f.w2)
    IN /\ slot' = m.slot
       /\ last' = [op |-> "cleanOldData", escaped |-> m.escaped, faults |-> f]
       /\ UNCHANGED <<now, level, tier, apiVars, appVars>>

WriteNext ==
  \/ SaveReadingObserved
  \/ CleanOldDataObserved

WriteSpec == Init /\ [][WriteNext]_vars

\* ------------------------------------------------------------------------
\* The classifier as a state machine: one call of getAlertLevel per step
\* ------------------------------------------------------------------------
MinLevel == 0 - 5
MaxLevel == 2005
LevelInputs == MinLevel..MaxLevel

Classify ==
  \E waterLevel \in LevelInputs :
    /\ level' = waterLevel
    /\ tier' = getAlertLevel(waterLevel)
    /\ UNCHANGED <<slot, now, last, apiVars, appVars>>

ClassifierNext == Classify

ClassifierSpec == Init /\ [][ClassifierNext]_vars

\* ------------------------------------------------------------------------
\* convertGermanDecimal as a state machine: one call on one argument.  The
\* arguments are all strings of up to MaxPegelLen characters of
\* PegelAlphabet.  With these digits no product meters * 100 lies within a
\* tenth of a half, so Math.round of the double is the rounding of the exact
\* value.
\* ------------------------------------------------------------------------
PegelAlphabet == {"0", "3", "6", "8", ",", ".", " ", "x"}
MaxPegelLen == 5
Strings(alphabet, n) == UNION {[1..k -> alphabet] : k \in 0..n}

ConvertInit ==
  /\ pegelText \in Strings(PegelAlphabet, MaxPegelLen)
  /\ centimeters = Null
  /\ StoreIdle /\ ClassifierIdle /\ ParserIdle /\ FetchIdle /\ AppIdle

ConvertGermanDecimal ==
  /\ centimeters = Null
  /\ centimeters' = convertGermanDecimal(pegelText)
  /\ UNCHANGED <<slot, now, last, level, tier, pegelText, xmlDoc, parseResult,
                 useCorsProxy, fc, attempts, calls, appVars>>

ConvertNext == ConvertGermanDecimal

ConvertSpec == ConvertInit /\ [][ConvertNext]_vars

\* ------------------------------------------------------------------------
\* parseXMLResponse as a state machine: one call on one document
\* ------------------------------------------------------------------------
DatumInputs ==
  {Undefined, TextContent(<<>>), TextContent(<<" ">>),
   TextContent(Str_Datum),
   TextContent(<<" ", "2", "7", ".", " ", "O", "k", "t", "o", "b", "e", "r", " ", "2", "0", "2", "5", " ">>),
   TextContent(<<"2", "7", ".", " ", "M", "ä", "r", "z", " ", "2", "0", "2", "5">>),
   TextContent(<<"2", "7", ".", " ", "S", "m", "a", "r", "c", "h", " ", "2", "0", "2", "5">>),
   TextContent(<<"2", "7", ".", "1", "0", ".", "2", "0", "2", "5">>)}
UhrzeitInputs ==
  {Undefined, TextContent(<<>>), TextContent(<<" ">>),
   TextContent(Str_Uhrzeit),
   TextContent(<<" ", "1", "5", ":", "2", "5", " ">>),
   TextContent(<<"9", ".", "0", "5">>)}
PegelInputs ==
  {Undefined, TextContent(<<>>), TextContent(<<" ">>),
   TextContent(Str_Pegel),
   TextContent(<<" ", "3", ",", "6", "8", " ">>),
   TextContent(<<"3", ".", "6", "8">>),
   TextContent(<<"3">>),
   TextContent(<<"3", ",", "6">>),
   TextContent(<<"3", ",", "6", "8", "x">>),
   TextContent(<<"x">>)}
GrafikInputs == {Undefined, TextContent(<<" ", "g", " ">>)}
ParserErrorDoc ==
  [parsererror |-> TRUE, Datum |-> Undefined, Uhrzeit |-> Undefined,
   Pegel |-> Undefined, Grafik |-> Undefined]
XmlDocs ==
  {XmlDoc(d, u, p, g) : d \in DatumInputs, u \in UhrzeitInputs,
                        p \in PegelInputs, g \in GrafikInputs}
    \cup {ParserErrorDoc}

\* Date.now() while parsing: 27 October 2025, 16:00, in minutes
ParserNow == DateGetTime(2025, 9, 27, 16, 0)

ParserInit ==
  /\ xmlDoc \in XmlDocs
  /\ parseResult = Null
  /\ slot = Absent /\ now = ParserNow /\ last = [op |-> "new"]
  /\ ClassifierIdle /\ ConvertIdle /\ FetchIdle /\ AppIdle

ParseXMLResponse ==
  /\ parseResult = Null
  /\ parseResult' = parseXMLResponse(xmlDoc, now)
  /\ UNCHANGED <<slot, now, last, level, tier, pegelText, centimeters,
                 xmlDoc, useCorsProxy, fc, attempts, calls, appVars>>

ParserNext == ParseXMLResponse

ParserSpec == ParserInit /\ [][ParserNext]_vars

\* ------------------------------------------------------------------------
\* The fetch client as a state machine.  A fetchCurrentLevel call runs up to
\* its next await in one step: FetchCurrentLevel starts attempt 1,
\* FetchSettles runs from the settled fetch to the return, the delay or the
\* final throw, DelayElapses starts the next attempt.  enableCorsProxy and
\* disableCorsProxy may be called at any time.  last names the last step.
\* ------------------------------------------------------------------------
MaxCalls == 2

FetchInit ==
  /\ FetchIdle
  /\ slot = Absent /\ now = ParserNow /\ last = [op |-> "new"]
  /\ ClassifierIdle /\ ConvertIdle /\ ParserIdle /\ AppIdle

FetchUnchanged ==
  UNCHANGED <<slot, now, level, tier, pegelText, centimeters, xmlDoc,
              parseResult, appVars>>

InFlight == fc.pc \in {"fetch", "delay"}

FetchCurrentLevel ==
  /\ ~InFlight
  /\ calls < MaxCalls
  /\ calls' = calls + 1
  /\ fc' = [NoCall EXCEPT !.pc = "fetch", !.attempt = 1,
                          !.url = requestUrl(useCorsProxy)]
  /\ attempts' = <<>>
  /\ last' = [op |-> "fetchCurrentLevel"]
  /\ UNCHANGED useCorsProxy
  /\ FetchUnchanged

\* The rest of an attempt once its try block has returned or thrown r: the
\* return, or the catch block and the end of the loop
AttemptEnds(outcome, r) ==
  /\ attempts' = Append(attempts, [attempt |-> fc.attempt, url |-> fc.url,
                                   outcome |-> outcome, result |-> r])
  /\ IF ~r.threw
     THEN /\ fc' = [fc EXCEPT !.pc = "resolved", !.result = r]
          /\ UNCHANGED useCorsProxy
     ELSE /\ useCorsProxy' = engageProxy(useCorsProxy, r, fc.attempt)
          /\ fc' = IF fc.attempt < maxRetries
                   THEN [fc EXCEPT !.pc = "delay",
                                   !.lastError = recordError(fc.lastError, r),
                                   !.delay = backoff(fc.attempt),
                                   !.waited = 0]
                   ELSE [fc EXCEPT !.pc = "rejected",
                                   !.lastError = recordError(fc.lastError, r),
                                   !.result = FetchExhausted(recordError(fc.lastError, r))]

FetchSettles ==
  /\ fc.pc = "fetch"
  /\ \E outcome \in FetchOutcomes : AttemptEnds(outcome, attemptBody(outcome, now))
  /\ calls' = calls
  /\ last' = [op |-> "settle"]
  /\ FetchUnchanged

\* Time passes while delay's timer is pending, retryDelay ms at a time
DelayRuns ==
  /\ fc.pc = "delay"
  /\ fc.waited < fc.delay
  /\ fc' = [fc EXCEPT !.waited = @ + retryDelay]
  /\ last' = [op |-> "wait"]
  /\ UNCHANGED <<useCorsProxy, attempts, calls>>
  /\ FetchUnchanged

\* The timer of delay(ms) fires, not before ms have passed, and the loop
\* goes on with the next attempt
DelayElapses ==
  /\ fc.pc = "delay"
  /\ fc.waited >= fc.delay
  /\ fc' = [fc EXCEPT !.pc = "fetch", !.attempt = fc.attempt + 1,
                      !.url = requestUrl(useCorsProxy)]
  /\ last' = [op |-> "delay"]
  /\ UNCHANGED <<useCorsProxy, attempts, calls>>
  /\ FetchUnchanged

EnableCorsProxy ==
  /\ useCorsProxy' = TRUE
  /\ fc' = [fc EXCEPT !.switched = fc.switched \/ InFlight]
  /\ last' = [op |-> "enableCorsProxy"]
  /\ UNCHANGED <<attempts, calls>>
  /\ FetchUnchanged

DisableCorsProxy ==
  /\ useCorsProxy' = FALSE
  /\ fc' = [fc EXCEPT !.switched = fc.switched \/ InFlight]
  /\ last' = [op |-> "disableCorsProxy"]
  /\ UNCHANGED <<attempts, calls>>
  /\ FetchUnchanged

FetchNext ==
  \/ FetchCurrentLevel
  \/ FetchSettles
  \/ DelayRuns
  \/ DelayElapses
  \/ EnableCorsProxy
  \/ DisableCorsProxy

FetchSpec == FetchInit /\ [][FetchNext]_vars

\* ------------------------------------------------------------------------
\* The coordinator as a state machine: initialize, the triggers of a fetch
\* cycle, and the cycle's continuation once fetchCurrentLevel has settled.
\* Cycles started while another one is awaiting overlap, as in the program.
\* The cycles of one run are a minute apart and the clock counts hours: now
\* keeps its value.
\* ------------------------------------------------------------------------
\* fetchAndUpdate calls started in one run
MaxCycles == 2

\* A store that already holds a reading when the page opens
PriorStore ==
  JSONstringify([version |-> version,
                 readings |-> <<StoredReading(DataAt(StartNow, 800))>>,
                 lastUpdated |-> <<StartNow>>])
AppInitSlots == {Absent, PriorStore}

\* Levels fetchCurrentLevel resolves with: one per tier, two on a threshold
AppLevels == {368, NORMAL_max, WARNING_max}
\* Storage faults met by the cycle's saveReading
QuietPass == [rd |-> "ok", w1 |-> "ok", w2 |-> "none"]
AppFaults ==
  {f \in SaveFaults :
     /\ f.own.rd = "ok"
     /\ f.clean \in {QuietPass, NoPass}}
\* Errors fetchCurrentLevel rejects with
AppErrors == {FetchExhausted(FailedToFetch), FetchExhausted(AbortError)}

AppInit ==
  /\ slot \in AppInitSlots
  /\ now = StartNow
  /\ last = [op |-> "new"]
  /\ ClassifierIdle /\ ConvertIdle /\ ParserIdle /\ FetchIdle /\ AppIdle

AppUnchanged == UNCHANGED <<now, level, tier, apiVars>>

\* The coordinator's objects as one value, no call made yet
Page == [slot |-> slot, AppState |-> AppState, display |-> display,
         chart |-> chart, trace |-> <<>>]
Becomes(p) ==
  /\ slot' = p.slot
  /\ AppState' = p.AppState
  /\ display' = p.display
  /\ chart' = p.chart
  /\ trace' = p.trace

\* One more fetchAndUpdate awaiting fetchCurrentLevel, started by origin
Started(origin) ==
  [cycle EXCEPT !.pending = Append(@, origin), !.started = @ + 1]
\* s without its i-th element
Without(s, i) == SubSeq(s, 1, i - 1) \o SubSeq(s, i + 1, Len(s))

\* stopAutoRefresh: the timer, if any, cleared and forgotten
stopAutoRefresh(state) == [state EXCEPT !.refreshTimer = Null]
\* startAutoRefresh: the previous timer cleared, a new one set
startAutoRefresh(state) ==
  [stopAutoRefresh(state) EXCEPT
     !.refreshTimer = [timer |-> "interval", period |-> state.refreshInterval]]
\* Mutant: startAutoRefresh without its call of stopAutoRefresh
LiveAfterStart_NoStop(state, n) == n + 1

\* The intervals running after stopAutoRefresh and after startAutoRefresh
\* when n run before: clearInterval ends the one AppState.refreshTimer names
LiveAfterStop(state, n) == IF state.refreshTimer = Null THEN n ELSE n - 1
LiveAfterStart(state, n) == LiveAfterStop(state, n) + 1

showSuccessToast(p, message) == [p EXCEPT !.display.successToast = message]
\* The change listener of the auto-refresh checkbox
autoRefreshToggled(p, checked) ==
  LET set == [p EXCEPT !.AppState.autoRefreshEnabled = checked]
  IN IF checked
     THEN [showSuccessToast(set, "Auto-Aktualisierung aktiviert") EXCEPT
             !.AppState = startAutoRefresh(@)]
     ELSE [showSuccessToast(set, "Auto-Aktualisierung deaktiviert") EXCEPT
             !.AppState = stopAutoRefresh(@)]

\* initialize() up to its await; canvas tells whether the page has the
\* chart's canvas, rd is the outcome of the store's getItem
InitializePage ==
  /\ ~cycle.initialized
  /\ \E canvas \in BOOLEAN, rd \in ReadOutcomes :
       LET history == getHistoricalData(slot, now, DefaultHours, rd).ret
           made == [Page EXCEPT !.chart = IF canvas THEN initializeChart(history)
                                          ELSE Null]
       IN /\ Becomes(fetchAndUpdateStart(made))
          /\ last' = [op |-> "initialize", canvas |-> canvas]
  /\ cycle' = [Started("initialize") EXCEPT !.initialized = TRUE]

Initialize == InitializePage /\ AppUnchanged

\* handleManualRefresh() up to its await, called by the button's click
\* listener (a disabled button gets no click) or by the keydown listener
HandleManualRefresh ==
  /\ cycle.initialized
  /\ cycle.started < MaxCycles
  /\ \E by \in {"click", "key"} :
       /\ by = "click" => ~display.refreshBtnDisabled
       /\ last' = [op |-> "handleManualRefresh", by |-> by]
  /\ Becomes(fetchAndUpdateStart([Page EXCEPT !.display.refreshBtnDisabled = TRUE]))
  /\ cycle' = Started("manual")
  /\ AppUnchanged

\* The checkbox changes; it is checked when the page loads and the listener
\* copies its state to AppState.autoRefreshEnabled
AutoRefreshToggled ==
  /\ cycle.initialized
  /\ LET checked == ~AppState.autoRefreshEnabled
     IN /\ Becomes(autoRefreshToggled(Page, checked))
        /\ cycle' = [cycle EXCEPT !.intervals =
                       IF checked THEN LiveAfterStart(AppState, @)
                       ELSE LiveAfterStop(AppState, @)]
        /\ last' = [op |-> "toggle", checked |-> checked,
                     had |-> cycle.intervals]
  /\ AppUnchanged

\* destroy(): the timer stopped, the chart, if there is one, destroyed; the
\* listeners stay
destroy(p) ==
  [p EXCEPT !.AppState = stopAutoRefresh(@),
            !.chart = IF @ = Null THEN @ ELSE DestroyedChart]
Destroy ==
  /\ Becomes(destroy(Page))
  /\ cycle' = [cycle EXCEPT !.intervals = LiveAfterStop(AppState, @)]
  /\ last' = [op |-> "destroy", had |-> cycle.intervals]
  /\ AppUnchanged

\* The callback without its test of AppState.autoRefreshEnabled
AutoRefreshFires_Ungated ==
  /\ cycle.intervals > 0
  /\ cycle.started < MaxCycles
  /\ Becomes(fetchAndUpdateStart(Page))
  /\ cycle' = Started("timer")
  /\ last' = [op |-> "autoRefresh"]
  /\ AppUnchanged

\* The callback with a guard: no cycle is started while one is in flight
AutoRefreshFires_Guarded ==
  /\ cycle.intervals > 0
  /\ cycle.started < MaxCycles
  /\ IF AppState.autoRefreshEnabled /\ cycle.pending = <<>>
     THEN /\ Becomes(fetchAndUpdateStart(Page))
          /\ cycle' = Started("timer")
     ELSE /\ Becomes(Page)
          /\ UNCHANGED cycle
  /\ last' = [op |-> "autoRefresh"]
  /\ AppUnchanged

\* The interval timer's callback
AutoRefreshFires ==
  /\ cycle.intervals > 0
  /\ cycle.started < MaxCycles
  /\ IF AppState.autoRefreshEnabled
     THEN /\ Becomes(fetchAndUpdateStart(Page))
          /\ cycle' = Started("timer")
     ELSE /\ Becomes(Page)
          /\ UNCHANGED cycle
  /\ last' = [op |-> "autoRefresh"]
  /\ AppUnchanged

\* What follows the await fetchAndUpdate() of the caller that started the cycle
AfterCycle(p, origin) ==
  IF origin = "initialize"
  THEN [p EXCEPT !.AppState = startAutoRefresh(p.AppState)]
  ELSE p
Settled(i) ==
  [cycle EXCEPT !.pending = Without(@, i),
                !.reenable = IF cycle.pending[i] = "manual" THEN @ + 1 ELSE @,
                !.intervals = IF cycle.pending[i] = "initialize"
                              THEN LiveAfterStart(AppState, @) ELSE @]

\* fetchCurrentLevel resolves with data: the rest of one pending cycle, with
\* the reading, the storage faults and the chart's outcome drawn from the sets
Resolves(readings, faults, chartOutcomes) ==
  \E i \in DOMAIN cycle.pending, data \in readings, f \in faults,
     cf \in chartOutcomes, rd \in ReadOutcomes :
    /\ cf = "ok" => rd = "ok"
    /\ LET r == tryBlock(Page, now, data, f, cf)
       IN /\ Becomes(AfterCycle(fetchAndUpdateResolved(Page, now, data, f, cf, rd),
                                cycle.pending[i]))
          /\ last' = [op |-> "resolved", data |-> data, threw |-> r.threw,
                      hadChart |-> (chart # Null)]
    /\ cycle' = Settled(i)
    /\ AppUnchanged

\* The readings fetched at time t, one for each level
ReadingsAt(t, levels) == {DataAt(t, l) : l \in levels}

CycleResolves == Resolves(ReadingsAt(now, AppLevels), AppFaults, ChartOutcomes)

\* fetchCurrentLevel rejects with error: the rest of one pending cycle
Rejects(errors) ==
  \E i \in DOMAIN cycle.pending, error \in errors, rd \in ReadOutcomes :
    /\ Becomes(AfterCycle(fetchAndUpdateRejected(Page, error, rd), cycle.pending[i]))
    /\ last' = [op |-> "rejected", error |-> error, rd |-> rd]
    /\ cycle' = Settled(i)
    /\ AppUnchanged

CycleRejects == Rejects(AppErrors)

\* The timeout handleManualRefresh sets after its cycle
RefreshBtnReenabled ==
  /\ cycle.reenable > 0
  /\ Becomes([Page EXCEPT !.display.refreshBtnDisabled = FALSE])
  /\ cycle' = [cycle EXCEPT !.reenable = @ - 1]
  /\ last' = [op |-> "reenable"]
  /\ AppUnchanged

AppNext ==
  \/ Initialize
  \/ HandleManualRefresh
  \/ AutoRefreshFires
  \/ CycleResolves
  \/ CycleRejects
  \/ RefreshBtnReenabled

AppSpec == AppInit /\ [][AppNext]_vars

\* ------------------------------------------------------------------------
\* The coordinator's controls: the cycles' triggers and the auto-refresh
\* checkbox, with storage and chart working and two levels to fetch.
\* ------------------------------------------------------------------------
ControlLevels == {368, WARNING_max}
QuietFaults == [own |-> QuietPass, clean |-> QuietPass]

CycleResolvesQuietly ==
  Resolves(ReadingsAt(now, ControlLevels), {QuietFaults}, {"ok"})

ControlNext ==
  \/ Initialize
  \/ HandleManualRefresh
  \/ AutoRefreshToggled
  \/ Destroy
  \/ AutoRefreshFires
  \/ CycleResolvesQuietly
  \/ CycleRejects
  \/ RefreshBtnReenabled

ControlSpec == AppInit /\ [][ControlNext]_vars

\* ------------------------------------------------------------------------
\* One cycle from end to end: the page opens on an empty store, initialize
\* starts the cycle, fetchCurrentLevel makes its attempts against the
\* upstream, and the cycle goes on with what the call settled with.  Storage
\* and chart work.  The clock counts minutes, as the parser does, and keeps
\* its value during the cycle; the retention is maxAge minutes.
\* ------------------------------------------------------------------------
\* 1. Januar 2025, 9:05
PayloadTime == DateGetTime(2025, 0, 1, 9, 5)
\* The clock when the page opens: at the payload's time, on the retention
\* edge, a minute past it
PageClock == {PayloadTime + o : o \in Offsets}
EmptySlots == {Absent, JSONstringify(createEmptyStorage)}

PageInit ==
  /\ slot \in EmptySlots
  /\ now \in PageClock
  /\ last = [op |-> "new"]
  /\ ClassifierIdle /\ ConvertIdle /\ ParserIdle /\ FetchIdle /\ AppIdle

\* initialize() up to the await of its cycle's fetchCurrentLevel, whose first
\* attempt is under way
PageOpens ==
  /\ InitializePage
  /\ calls' = calls + 1
  /\ fc' = [NoCall EXCEPT !.pc = "fetch", !.attempt = 1,
                          !.url = requestUrl(useCorsProxy)]
  /\ attempts' = <<>>
  /\ UNCHANGED <<now, level, tier, pegelText, centimeters, xmlDoc, parseResult,
                 useCorsProxy>>

\* The cycle goes on once its fetchCurrentLevel has settled
FetchedCycleResolves ==
  /\ fc.pc = "resolved"
  /\ Resolves({fc.result.value}, {QuietFaults}, {"ok"})

FetchedCycleRejects ==
  /\ fc.pc = "rejected"
  /\ Rejects({fc.result})

PageNext ==
  \/ PageOpens
  \/ FetchSettles
  \/ DelayRuns
  \/ DelayElapses
  \/ FetchedCycleResolves
  \/ FetchedCycleRejects

EndToEndSpec == PageInit /\ [][PageNext]_vars

\* ------------------------------------------------------------------------
\* Vocabulary of the properties
\* ------------------------------------------------------------------------
\* The slot holds a store of the current schema.
IsStore(s) == s.kind = "json" /\ s.version = version
\* The readings the slot holds as a store of the current schema.
Persisted(s) == IF IsStore(s) THEN s.readings ELSE <<>>
Range(q) == {q[i] : i \in DOMAIN q}
\* How often x occurs in q
Count(q, x) == Cardinality({i \in DOMAIN q : q[i] = x})
Fresh(x, t) == x.timestamp >= t - maxAge
FreshIn(q, t) == {i \in DOMAIN q : Fresh(q[i], t)}
Saved == last.op = "saveReading"
SavedOK == Saved /\ last.ret = TRUE /\ last.faultFree

\* C1: after any sequence of saveReading calls (and of the store's other
\* operations, with or without storage faults) the persisted store holds at
\* most maxEntries readings.
C1_AtMostMaxEntries == IsStore(slot) => Len(slot.readings) <= maxEntries

\* C1 witness: a save onto a full store has returned true and the store is
\* still full.
C1_Witness ==
  /\ SavedOK /\ last.held = maxEntries
  /\ IsStore(slot) /\ Len(slot.readings) = maxEntries

\* The candidates of a save: the stored readings and the new one.
Candidates(s, data) == Append(Persisted(s), StoredReading(data))
MinTimestamp(q) ==
  CHOOSE m \in {q[i].timestamp : i \in DOMAIN q} :
    \A i \in DOMAIN q : m <= q[i].timestamp
\* A fault-free save on a store that holds maxEntries readings
SavesOnFull ==
  /\ IsStore(slot) /\ Len(slot.readings) = maxEntries
  /\ last'.op = "saveReading" /\ last'.faultFree

\* C2 as stated: a save on a full store drops exactly one of the
\* maxEntries + 1 candidates, one with the smallest timestamp, and keeps the
\* maxEntries newest.
C2_Original ==
  [][SavesOnFull =>
       LET c == Candidates(slot, last'.arg)
           p == Persisted(slot')
       IN /\ Len(p) = maxEntries
          /\ \A x \in Range(c) :
               Count(p, x) = Count(c, x) -
                 (IF x.timestamp = MinTimestamp(c) THEN 1 ELSE 0)]_vars

\* C2 amended: of the maxEntries + 1 candidates the save drops one with the
\* smallest timestamp and every candidate older than maxAge; all other
\* candidates are kept.  Exactly one entry is dropped when at least
\* maxEntries candidates are no older than maxAge.
C2_Amended ==
  [][SavesOnFull =>
       LET c == Candidates(slot, last'.arg)
           p == Persisted(slot')
           m == MinTimestamp(c)
           mins == {i \in DOMAIN c : c[i].timestamp = m}
           fresh == FreshIn(c, now')
       IN /\ \A x \in Range(p) : Fresh(x, now') /\ Count(p, x) <= Count(c, x)
          /\ \A x \in Range(c) :
               Fresh(x, now') /\ x.timestamp > m => Count(p, x) = Count(c, x)
          /\ Len(p) = Cardinality(fresh) - (IF mins \subseteq fresh THEN 1 ELSE 0)
          /\ Cardinality(fresh) >= maxEntries => Len(p) = maxEntries]_vars

\* C2 witness: a fault-free save onto a full store has left a full store
\* whose newest entry is the new reading: an older entry made room for it.
C2_Witness ==
  /\ SavedOK /\ last.held = maxEntries
  /\ IsStore(slot) /\ Len(slot.readings) = maxEntries
  /\ slot.readings[1] = StoredReading(last.arg)
  /\ slot.readings[maxEntries].timestamp < last.arg.timestamp

\* C3: right after cleanOldData returns, and right after saveReading returns
\* true, every persisted reading has timestamp >= now - maxAge, and a reading
\* saved with an older timestamp is not in the store (no storage call of the
\* method having failed).
C3_NothingOlderThanMaxAge ==
  (last.op = "cleanOldData" /\ last.faultFree) \/ SavedOK =>
    /\ \A x \in Range(Persisted(slot)) : x.timestamp >= now - maxAge
    /\ SavedOK /\ last.arg.timestamp < now - maxAge =>
         StoredReading(last.arg) \notin Range(Persisted(slot))

\* C3 witness: a reading one hour too old was saved onto a store that keeps
\* other readings.
C3_Witness ==
  /\ SavedOK /\ last.arg.timestamp < now - maxAge
  /\ Len(Persisted(slot)) > 0

\* What getHistoricalData(DefaultHours) returns in the present state.
HistoryNow == getHistoricalData(slot, now, DefaultHours, "ok").ret

\* C4 as stated: a save of a reading within maxAge of now, followed by
\* getHistoricalData(24), returns the reading, whatever the store held.
C4_Original ==
  SavedOK /\ Fresh(last.arg, now) => StoredReading(last.arg) \in Range(HistoryNow)

\* C4 amended: a save of a reading within maxAge of now, followed by
\* getHistoricalData(24), returns the reading when fewer than maxEntries of
\* the readings the store held have a timestamp at or above the reading's.
C4_Amended ==
  [][/\ last'.op = "saveReading" /\ last'.faultFree
     /\ Fresh(last'.arg, now')
     /\ Cardinality({i \in DOMAIN Persisted(slot) :
          Persisted(slot)[i].timestamp >= last'.arg.timestamp}) < maxEntries
     => StoredReading(last'.arg) \in
          Range(getHistoricalData(slot', now', DefaultHours, "ok").ret)]_vars

\* C4 witness: the saved reading lies on the retention edge, the store holds
\* other readings, and the history returns it first (oldest first).
C4_Witness ==
  /\ SavedOK /\ last.arg.timestamp = now - maxAge /\ last.held > 0
  /\ Len(HistoryNow) > 1
  /\ HistoryNow[1] = StoredReading(last.arg)

Ascending(q) ==
  \A i, j \in DOMAIN q : i < j => q[i].timestamp <= q[j].timestamp

\* C5: getHistoricalData(hours) returns exactly the persisted readings with
\* timestamp >= now - hours, each as often as it is stored, oldest first.
C5_HistoryIsTheWindowAscending ==
  last.op = "getHistoricalData" /\ last.faultFree /\ IsStore(slot) =>
    /\ Ascending(last.ret)
    /\ \A x \in Range(last.ret) \cup Range(slot.readings) :
         Count(last.ret, x) =
           (IF x.timestamp >= now - last.arg THEN Count(slot.readings, x) ELSE 0)

\* C5 witness: the window cuts the store: a reading is left out, two with
\* different timestamps are returned.
C5_Witness ==
  /\ last.op = "getHistoricalData" /\ last.faultFree /\ IsStore(slot)
  /\ Len(last.ret) < Len(slot.readings)
  /\ Len(last.ret) > 1
  /\ last.ret[1].timestamp < last.ret[Len(last.ret)].timestamp

\* C6: getLatestReading returns null on a store without readings and
\* otherwise a persisted reading whose timestamp no persisted reading exceeds.
C6_LatestIsNewest ==
  last.op = "getLatestReading" /\ last.faultFree =>
    IF Len(Persisted(slot)) = 0 THEN last.ret = Null
    ELSE /\ last.ret \in Range(Persisted(slot))
         /\ \A x \in Range(Persisted(slot)) : x.timestamp <= last.ret.timestamp

\* C6 witness: the store holds readings of different timestamps.
C6_Witness ==
  /\ last.op = "getLatestReading" /\ last.faultFree
  /\ \E x \in Range(Persisted(slot)) : x.timestamp < last.ret.timestamp

\* C7: with the blob absent, unparseable or of another version, every read
\* sees an empty store and throws nothing (first formula); the next save
\* leaves a store of the current version that holds nothing but the new
\* reading (second formula, conjoined).
C7_ReadsSeeEmpty ==
  ~IsStore(slot) =>
    /\ last.op = "getHistoricalData" => last.ret = <<>> /\ ~last.escaped
    /\ last.op = "getLatestReading" => last.ret = Null /\ ~last.escaped

C7_MismatchIsEmpty ==
  [][/\ ~IsStore(slot') /\ last'.op \in {"getHistoricalData", "getLatestReading"}
        => C7_ReadsSeeEmpty'
     /\ ~IsStore(slot) /\ last'.op = "saveReading" /\ last'.faultFree
        => /\ IsStore(slot') /\ last'.ret = TRUE
           /\ slot'.readings =
                (IF Fresh(last'.arg, now') THEN <<StoredReading(last'.arg)>>
                 ELSE <<>>)]_vars

\* C7 witness: a blob of another version that holds a reading has been read
\* as empty.
C7_Witness ==
  /\ slot.kind = "json" /\ slot.version # version /\ Len(slot.readings) > 0
  /\ last.op = "getHistoricalData" /\ last.ret = <<>>

\* C8: no exception escapes a public store method, whatever the storage
\* layer's calls do; a failed call returns its default.
C8_NothingEscapes ==
  last.op \in {"saveReading", "getHistoricalData", "getLatestReading",
               "cleanOldData", "clearAll"} =>
    /\ ~last.escaped
    /\ last.op \in {"saveReading", "clearAll"} => last.ret \in BOOLEAN
    /\ last.op = "saveReading" /\ last.w1 = "other" => last.ret = FALSE
    /\ last.op = "clearAll" /\ ~last.faultFree => last.ret = FALSE
    /\ last.op = "getHistoricalData" /\ ~last.faultFree => last.ret = <<>>
    /\ last.op = "getLatestReading" /\ ~last.faultFree => last.ret = Null

\* C8 witness: the write hit the capacity limit and the retry failed too.
C8_Witness == Saved /\ last.w1 = "quota" /\ last.ret = FALSE

\* C9: when saveReading's write fails with an error other than the capacity
\* error, saveReading returns false and the slot keeps its content.
C9_FailedWriteKeepsSlot ==
  [][last'.op = "saveReading" /\ last'.w1 = "other" =>
       last'.ret = FALSE /\ slot' = slot]_vars

\* C9 witness: such a failed save on a store that holds readings.
C9_Witness ==
  Saved /\ last.w1 = "other" /\ last.ret = FALSE /\ Len(Persisted(slot)) > 0

ProxyUrl == "corsProxyUrl + apiUrl"
\* The attempt was answered with an HTTP 2xx status.
Got2xx(a) == a.outcome.kind = "response" /\ ResponseOk(a.outcome.status)
\* The attempt's fetch was rejected the way browsers reject a cross-origin
\* request.
CorsShaped(a) ==
  a.outcome.kind = "reject" /\ a.outcome.error \in {FailedToFetch, NetworkRequestFailed}
\* The message fetchCurrentLevel rejects with, around the message inner
ExhaustedMessage(inner) ==
  <<Lit("Failed to fetch data after "), Num(maxRetries), Lit(" attempts: ")>>
    \o inner

\* C11: an attempt that was answered with a 2xx status is the last attempt
\* of its call: the call has ended, with what the parser returned or threw
\* for the body.
C11_CallEndsAt2xx ==
  \A i \in DOMAIN attempts :
    Got2xx(attempts[i]) =>
      /\ i = Len(attempts)
      /\ ~InFlight
      /\ fc.result = attempts[i].result

\* C12: a call makes its attempts one after the other and at most maxRetries
\* of them; it rejects exactly when maxRetries attempts have failed, and the
\* error it rejects with carries the message of the last attempt's error.
C12_RejectsAfterMaxRetriesWithLastError ==
  /\ Len(attempts) <= maxRetries
  /\ \A i \in DOMAIN attempts : attempts[i].attempt = i
  /\ InFlight => fc.attempt <= maxRetries
  /\ fc.pc = "rejected" <=>
       /\ Len(attempts) = maxRetries
       /\ \A i \in DOMAIN attempts : attempts[i].result.threw
  /\ fc.pc = "rejected" =>
       /\ fc.result.threw
       /\ fc.result.message = ExhaustedMessage(attempts[maxRetries].result.message)

\* C12 witness: a call was rejected after three attempts that failed with
\* three different messages.
C12_Witness ==
  /\ fc.pc = "rejected"
  /\ Cardinality({attempts[i].result.message : i \in DOMAIN attempts}) = maxRetries

\* C13: useCorsProxy, once true, stays true in every step other than a
\* disableCorsProxy call, within a call and from one call to the next, and an
\* attempt that starts while it is true is sent to the proxy URL.
C13_OneWayLatch ==
  [][/\ useCorsProxy /\ last'.op # "disableCorsProxy" => useCorsProxy'
     /\ useCorsProxy /\ last'.op \in {"fetchCurrentLevel", "delay"}
          => fc'.pc = "fetch" /\ fc'.url = ProxyUrl]_vars

\* C13 witness: the flag is still set when the next call starts, and that
\* call's first attempt is under way on the proxy URL.
C13_Witness ==
  /\ calls = MaxCalls /\ fc.pc = "fetch" /\ fc.attempt = 1
  /\ fc.url = ProxyUrl /\ useCorsProxy
  /\ last.op = "fetchCurrentLevel"

\* C14: when the first two attempts of a call are rejected cross-origin and
\* the third is answered 2xx with the parseable payload, and nobody switched
\* the proxy by hand meanwhile, then the second and third attempt went to the
\* proxy URL, the call resolves with the parsed reading, and useCorsProxy is
\* true.
C14_ResolvesOnFallback ==
  [][(/\ last'.op = "settle" /\ ~fc'.switched
      /\ Len(attempts') = maxRetries
      /\ CorsShaped(attempts'[1]) /\ CorsShaped(attempts'[2])
      /\ Got2xx(attempts'[maxRetries])
      /\ attempts'[maxRetries].outcome.body = GoodDoc)
     => /\ attempts'[2].url = ProxyUrl /\ attempts'[maxRetries].url = ProxyUrl
        /\ fc'.pc = "resolved"
        /\ fc'.result = parseXMLResponse(GoodDoc, now)
        /\ ~fc'.result.threw /\ fc'.result.value.waterLevel = 400
        /\ useCorsProxy']_vars

\* C14 witness: such a call, begun on the direct URL, has resolved.
C14_Witness ==
  /\ fc.pc = "resolved" /\ ~fc.switched /\ Len(attempts) = maxRetries
  /\ attempts[1].url = "apiUrl"
  /\ CorsShaped(attempts[1]) /\ CorsShaped(attempts[2])
  /\ attempts[maxRetries].url = ProxyUrl
  /\ fc.result.value.waterLevel = 400
  /\ useCorsProxy

\* ------------------------------------------------------------------------
\* The parser (ParserSpec, ConvertSpec)
\* ------------------------------------------------------------------------
\* parseXMLResponse has been called on a document without parsererror.
Parsed == parseResult # Null /\ ~xmlDoc.parsererror
\* The element is absent, empty, or white space only.
Blank(f) == f = Undefined \/ Trim(f[1]) = <<>>
AllDigits(str) == str # <<>> /\ \A i \in DOMAIN str : str[i] \in Digits
\* <integer>,<2-digit fraction>
IsGermanDecimal(str) ==
  /\ Len(str) >= 4
  /\ str[Len(str) - 2] = ","
  /\ AllDigits(SubSeq(str, 1, Len(str) - 3))
  /\ AllDigits(SubSeq(str, Len(str) - 1, Len(str)))
\* <day>. <German month name> <4-digit year>
IsGermanDate(str) ==
  \E n \in DOMAIN monthNames, d \in 1..2, g1 \in 1..2, g2 \in 1..2 :
    LET name == Str_Month(monthNames[n])
        nameAt == d + 1 + g1
        yearAt == nameAt + Len(name) + g2
    IN /\ Len(str) = yearAt + 4
       /\ AllDigits(SubSeq(str, 1, d))
       /\ str[d + 1] = "."
       /\ \A i \in (d + 2)..(nameAt) : str[i] = " "
       /\ SubSeq(str, nameAt + 1, nameAt + Len(name)) = name
       /\ \A i \in (nameAt + Len(name) + 1)..yearAt : str[i] = " "
       /\ AllDigits(SubSeq(str, yearAt + 1, yearAt + 4))
\* <1-2 digit hour>:<2 digit minute>
IsTime(str) ==
  \E h \in 1..2 :
    /\ Len(str) = h + 3
    /\ AllDigits(SubSeq(str, 1, h))
    /\ str[h + 1] = ":"
    /\ AllDigits(SubSeq(str, h + 2, h + 3))
\* The error is the one convertGermanDecimal throws, as parseXMLResponse
\* rethrows it.
NumberFormatError(r) ==
  /\ r.threw
  /\ Len(r.message) >= 2
  /\ r.message[2] = Lit("Number conversion failed: ")
\* All three required elements hold text that is not blank.
RequiredPresent ==
  ~Blank(xmlDoc.Datum) /\ ~Blank(xmlDoc.Uhrzeit) /\ ~Blank(xmlDoc.Pegel)

\* C15: when one of Datum, Uhrzeit, Pegel is absent, empty or white space
\* only, parseXMLResponse throws and returns no reading.
C15_BlankFieldFails ==
  Parsed /\ (Blank(xmlDoc.Datum) \/ Blank(xmlDoc.Uhrzeit) \/ Blank(xmlDoc.Pegel))
    => parseResult.threw

\* C16: when the (trimmed) Pegel text is not <integer>,<2-digit fraction>,
\* parseXMLResponse throws the number-format error.
C16_MalformedLevelFails ==
  Parsed /\ RequiredPresent /\ ~IsGermanDecimal(Trim(xmlDoc.Pegel[1]))
    => NumberFormatError(parseResult)

\* C17: when the (trimmed) Datum text is not <day>. <German month name>
\* <4-digit year> or the (trimmed) Uhrzeit text is not <1-2 digit hour>:<2
\* digit minute>, parseXMLResponse throws and returns no reading.
C17_MalformedDateOrTimeFails ==
  Parsed /\ RequiredPresent
    /\ (\/ ~IsGermanDate(Trim(xmlDoc.Datum[1]))
        \/ ~IsTime(Trim(xmlDoc.Uhrzeit[1])))
    => parseResult.threw

\* C18: when the three required elements are non-empty, the level converts,
\* and the reconstruction of the timestamp fails, parseXMLResponse returns a
\* reading all the same: its timestamp is Date.now(), its date and time are
\* the trimmed Datum and Uhrzeit texts, its level the converted Pegel.
C18_TimestampFailureFallsBackToNow ==
  (/\ Parsed
   /\ ~Falsy(xmlDoc.Datum) /\ ~Falsy(xmlDoc.Uhrzeit) /\ ~Falsy(xmlDoc.Pegel)
   /\ ~convertGermanDecimal(xmlDoc.Pegel[1]).threw
   /\ reconstruct(xmlDoc.Datum[1], xmlDoc.Uhrzeit[1]).threw)
  => /\ ~parseResult.threw
     /\ parseResult.value.timestamp = now
     /\ parseResult.value.date = Trim(xmlDoc.Datum[1])
     /\ parseResult.value.time = Trim(xmlDoc.Uhrzeit[1])
     /\ parseResult.value.waterLevel = convertGermanDecimal(xmlDoc.Pegel[1]).value

\* C18 witness: a document dated 27.10.2025 was parsed into a reading stamped
\* with the current time.
C18_Witness ==
  /\ Parsed /\ ~parseResult.threw
  /\ xmlDoc.Datum = TextContent(<<"2", "7", ".", "1", "0", ".", "2", "0", "2", "5">>)
  /\ reconstruct(xmlDoc.Datum[1], xmlDoc.Uhrzeit[1]).threw
  /\ parseResult.value.timestamp = now
  /\ parseResult.value.date = xmlDoc.Datum[1]

\* C19: for every string D,FF with D one or more digits and FF two digits,
\* convertGermanDecimal returns D * 100 + FF, also when that is outside
\* [RangeMin, RangeMax].
C19_ConvertsToCentimetres ==
  centimeters # Null /\ IsGermanDecimal(pegelText) =>
    /\ ~centimeters.threw
    /\ centimeters.value =
         parseInt(SubSeq(pegelText, 1, Len(pegelText) - 3)) * 100
           + parseInt(SubSeq(pegelText, Len(pegelText) - 1, Len(pegelText)))

\* C19 witness: "30,00" was converted to 3000, which is above RangeMax.
C19_Witness ==
  /\ pegelText = <<"3", "0", ",", "0", "0">>
  /\ centimeters = Returned(3000)
  /\ centimeters.value > RangeMax

\* ------------------------------------------------------------------------
\* The coordinator (C20 ...), under AppSpec
\* ------------------------------------------------------------------------
\* The step just taken is the rest of a cycle whose fetch resolved
Resolved == last.op = "resolved"
\* The tier of a level, by the thresholds 400 and 800
TierOfLevel(l) ==
  IF l < 400 THEN "NORMAL" ELSE IF l < 800 THEN "WARNING" ELSE "DANGER"
CallNames == [i \in DOMAIN trace |-> trace[i].call]
\* Every call of the step but the closing setLoading was handed d
CalledWith(d) == \A i \in 1..(Len(trace) - 1) : trace[i].arg = d
\* d is the newest point of the chart
ChartEndsWith(d) ==
  /\ chart # Null
  /\ Len(chart.values) > 0
  /\ chart.values[Len(chart.values)] = d.waterLevel
  /\ chart.labels[Len(chart.labels)] = d.timestamp
  /\ Len(chart.labels) = Len(chart.values)
DisplayShows(d) ==
  /\ display.currentLevel = d.waterLevel
  /\ display.alertLevel = TierOfLevel(d.waterLevel)

\* C20 as stated: after every cycle whose fetchCurrentLevel resolved with d,
\* d is on the display and at the end of the chart and AppState has
\* hasError = false, isLoading = false, currentLevel = d.waterLevel and
\* lastUpdate = d.timestamp.
C20_Original ==
  Resolved =>
    /\ ~AppState.hasError
    /\ ~AppState.isLoading
    /\ ChartEndsWith(last.data)
    /\ DisplayShows(last.data)
    /\ AppState.currentLevel = last.data.waterLevel
    /\ AppState.lastUpdate = last.data.timestamp

\* C20: after a cycle whose fetchCurrentLevel resolved with d and in which no
\* later step threw, the calls were saveReading(d), updateDisplay(d) and, when
\* the page has the chart, updateChart(d) and highlightAlertZone, in this
\* order; the display shows d's level and tier, d is the chart's newest point
\* when there is a chart, and AppState has currentLevel = d.waterLevel,
\* lastUpdate = d.timestamp, hasError = false.  isLoading is false after the
\* cycle whether or not a step threw, and a cycle in which a step threw ends
\* with hasError = true.
C20_Amended ==
  Resolved =>
    LET d == last.data
    IN /\ ~AppState.isLoading
       /\ last.threw => AppState.hasError
       /\ ~last.threw =>
            /\ CallNames =
                 IF last.hadChart
                 THEN <<"saveReading", "updateDisplay", "updateChart",
                        "highlightAlertZone", "setLoading(false)">>
                 ELSE <<"saveReading", "updateDisplay", "setLoading(false)">>
            /\ CalledWith(d)
            /\ DisplayShows(d)
            /\ last.hadChart => ChartEndsWith(d)
            /\ ~last.hadChart => chart = Null
            /\ AppState.currentLevel = d.waterLevel
            /\ AppState.lastUpdate = d.timestamp
            /\ ~AppState.hasError

\* C20 witness: the last cycle of a run resolved with level 800 on a page
\* with the chart: the level is shown as DANGER and ends the chart.
C20_Witness ==
  /\ Resolved
  /\ ~last.threw
  /\ last.hadChart
  /\ cycle.started = MaxCycles
  /\ cycle.pending = <<>>
  /\ ChartEndsWith(last.data)
  /\ display.alertLevel = "DANGER"
  /\ AppState.currentLevel = 800

\* The readings of the store that no stored reading is newer than
NewestPersisted(s) ==
  {x \in Range(Persisted(s)) :
     \A y \in Range(Persisted(s)) : y.timestamp <= x.timestamp}
\* What the page shows of a reading
Shown(d) == <<d.currentLevel, d.lastUpdate, d.alertLevel>>

\* C21: a cycle whose fetchCurrentLevel rejected sets hasError, records the
\* error's message and writes nothing to the store; when the store is read
\* without a fault, the display then shows the level and tier of a newest
\* stored reading if the store holds one, and is left as it was (no
\* updateDisplay call) if the store holds none.
C21_FailedCycleFallsBack ==
  [][last'.op = "rejected" =>
       /\ AppState'.hasError
       /\ AppState'.errorMessage = last'.error.message
       /\ slot' = slot
       /\ last'.rd = "ok" =>
            IF Persisted(slot) # <<>>
            THEN /\ \E i \in DOMAIN trace' : trace'[i].call = "updateDisplay"
                 /\ \E x \in NewestPersisted(slot) :
                      /\ display'.currentLevel = x.waterLevel
                      /\ display'.alertLevel = TierOfLevel(x.waterLevel)
            ELSE /\ \A i \in DOMAIN trace' : trace'[i].call # "updateDisplay"
                 /\ Shown(display') = Shown(display)]_vars

\* C21 witness: the second cycle of a run failed while the store held the
\* reading of level 800: the display shows 800, DANGER, with hasError set.
C21_Witness ==
  /\ last.op = "rejected"
  /\ last.rd = "ok"
  /\ slot = PriorStore
  /\ cycle.started = MaxCycles
  /\ AppState.hasError
  /\ display.currentLevel = 800
  /\ display.alertLevel = "DANGER"

\* ------------------------------------------------------------------------
\* The fetch client, continued (FetchSpec)
\* ------------------------------------------------------------------------
\* The attempt that the step just taken has ended
EndedAttempt == attempts[Len(attempts)]
\* The attempt failed on a non-2xx status or on the timeout's abort
PlainFailure(a) ==
  \/ a.outcome.kind = "response" /\ ~ResponseOk(a.outcome.status)
  \/ a.outcome.kind = "reject" /\ a.outcome.error = AbortError

\* C28: the end of an attempt changes useCorsProxy exactly when the attempt
\* failed, was attempt 1 of its call, its error is cross-origin for
\* isCorsError and useCorsProxy was false, and then sets it; a failure of
\* attempt 2 or 3, a non-2xx status and a timeout leave it as it was.
C28_EngagedOnFirstCorsFailureOnly ==
  [][last'.op = "settle" =>
       /\ useCorsProxy' # useCorsProxy <=>
            /\ EndedAttempt'.result.threw
            /\ EndedAttempt'.attempt = 1
            /\ isCorsError(EndedAttempt'.result)
            /\ ~useCorsProxy
       /\ useCorsProxy' # useCorsProxy => useCorsProxy'
       /\ EndedAttempt'.attempt > 1 => useCorsProxy' = useCorsProxy
       /\ PlainFailure(EndedAttempt') => useCorsProxy' = useCorsProxy]_vars

\* C28 witness: attempt 1 failed on a status, attempt 2 was rejected
\* cross-origin, and the proxy is still off.
C28_Witness ==
  /\ last.op = "settle"
  /\ Len(attempts) = 2
  /\ PlainFailure(attempts[1])
  /\ CorsShaped(attempts[2])
  /\ ~fc.switched
  /\ ~useCorsProxy

FirstHalf(q) == SubSeq(q, 1, Len(q) \div 2)
\* The readings a method sees when its getItem ends as rd
Seen(s, rd) == IF rd = "ok" THEN Persisted(s) ELSE <<>>
\* What saveReading hands to its write: the readings seen and the new one,
\* newest first, cut to maxEntries
WrittenBySave(s, data, rd) ==
  limitEntries(SortNewestFirst(Append(Seen(s, rd), StoredReading(data))))
\* What cleanOldData hands to its write at time t
WrittenByClean(s, t, rd) == NotOlderThan(Seen(s, rd), t - maxAge)
\* No reading of the first half is older than one of the rest
HalfIsNewest(q) ==
  \A i \in 1..(Len(q) \div 2), j \in (Len(q) \div 2 + 1)..Len(q) :
    q[i].timestamp >= q[j].timestamp

\* C30: when a write of n readings fails with the capacity error, the retry
\* writes the first floor(n / 2) of them, which are the newest; when the
\* retry succeeds the store holds exactly these (after saveReading, those of
\* them that the closing cleanOldData keeps), and when the retry fails too
\* nothing is written, the slot keeps its content and saveReading returns
\* false.
C30_CapacityRetryKeepsNewestHalf ==
  [][/\ (last'.op = "cleanOldData" /\ last'.faults.w1 = "quota") =>
          LET written == WrittenByClean(slot, now, last'.faults.rd)
          IN /\ ~last'.escaped
             /\ HalfIsNewest(written)
             /\ IF last'.faults.w2 = "ok"
                THEN IsStore(slot') /\ slot'.readings = FirstHalf(written)
                ELSE slot' = slot
     /\ (last'.op = "saveReading" /\ last'.faults.own.w1 = "quota") =>
          LET written == WrittenBySave(slot, last'.arg, last'.faults.own.rd)
          IN /\ HalfIsNewest(written)
             /\ IF last'.faults.own.w2 = "ok"
                THEN /\ last'.ret = TRUE
                     /\ NoFault(last'.faults.clean) =>
                          /\ IsStore(slot')
                          /\ slot'.readings =
                               NotOlderThan(FirstHalf(written), now - maxAge)
                ELSE last'.ret = FALSE /\ slot' = slot]_vars

\* C30 witness: a save onto a full store hit the capacity error, the retry
\* went through, and of the maxEntries readings written the store holds the
\* newest floor(maxEntries / 2), with an older one gone.
C30_Witness ==
  /\ Saved /\ last.ret = TRUE /\ last.held = maxEntries
  /\ last.faults.own.w1 = "quota" /\ last.faults.own.w2 = "ok"
  /\ NoFault(last.faults.clean)
  /\ IsStore(slot) /\ Len(slot.readings) = maxEntries \div 2
  /\ slot.readings[1] = StoredReading(last.arg)

\* ------------------------------------------------------------------------
\* The store's reading methods (Spec)
\* ------------------------------------------------------------------------
ReadOps == {"getHistoricalData", "getLatestReading", "exportData", "getStatistics"}
WriteOps == {"saveReading", "cleanOldData", "clearAll"}

\* C26: a call of getHistoricalData, getLatestReading, exportData or
\* getStatistics leaves the persisted slot as it was, whatever the slot holds
\* (nothing, unparseable text, a blob of another version, a store) and
\* however getItem ends; a step that changes the slot is a call of
\* saveReading, cleanOldData or clearAll.
C26_OnlyWritesChangeTheSlot ==
  [][/\ last'.op \in ReadOps => slot' = slot
     /\ slot' # slot => last'.op \in WriteOps]_vars

\* C26 witness: exportData met a blob of another version, returned the empty
\* store as text, and the blob is still in the slot.
C26_Witness ==
  /\ last.op = "exportData"
  /\ slot = OldVersionBlob
  /\ last.ret = JSONstringify(createEmptyStorage)

\* ------------------------------------------------------------------------
\* The coordinator's controls (ControlSpec)
\* ------------------------------------------------------------------------
\* A fetchAndUpdate is awaiting fetchCurrentLevel
CycleInFlight == cycle.pending # <<>>
\* The step is a call of handleManualRefresh
ManualRefreshStarts ==
  last'.op = "handleManualRefresh" /\ cycle'.started = cycle.started + 1

\* C23: while a fetch cycle is in flight the manual-refresh control is
\* disabled and no manual refresh, by click or by the R key, starts another
\* cycle.
C23_NoManualRefreshInFlight ==
  [][CycleInFlight => display.refreshBtnDisabled /\ ~ManualRefreshStarts]_vars

\* The one interval startAutoRefresh leaves, at the 60 s period
OneInterval ==
  /\ cycle.intervals = 1
  /\ AppState.refreshTimer = [timer |-> "interval", period |-> 60000]

\* C24: while auto-refresh is toggled off no interval exists and
\* AppState.refreshTimer is null; a toggle to on leaves exactly one interval
\* at the 60 s period.
C24_NoIntervalWhileOff ==
  [][/\ ~AppState'.autoRefreshEnabled =>
          AppState'.refreshTimer = Null /\ cycle'.intervals = 0
     /\ (last'.op = "toggle" /\ last'.checked) => OneInterval']_vars

\* C27: the timer's callback starts a fetch cycle whenever auto-refresh is
\* enabled, whether or not other cycles are in flight, and a cycle whose
\* fetch resolves writes its reading to the store whatever else is in
\* flight.
C27_TimerStartsOverlappingCycle ==
  [][/\ (last'.op = "autoRefresh" /\ AppState.autoRefreshEnabled) =>
          /\ cycle'.pending = Append(cycle.pending, "timer")
          /\ AppState'.isLoading
     /\ last'.op = "resolved" =>
          StoredReading(last'.data) \in Range(Persisted(slot'))]_vars

\* C27 witness: two cycles were in flight, the second started by the timer;
\* the first has written its reading and the timer's cycle is still awaiting
\* its fetch.
C27_Witness ==
  /\ last.op = "resolved"
  /\ cycle.started = 2
  /\ cycle.pending = <<"timer">>
  /\ StoredReading(last.data) \in Range(Persisted(slot))

\* ------------------------------------------------------------------------
\* The end of every cycle (AppSpec)
\* ------------------------------------------------------------------------
CycleEnds == last'.op \in {"resolved", "rejected"}
CycleFailed == last'.op = "rejected" \/ last'.threw

GoodReading(t) == parseXMLResponse(GoodDoc, t).value
\* The step starts the cycle: Idle to Loading
CycleBegins ==
  last'.op = "initialize" => ~AppState.isLoading /\ AppState'.isLoading
\* The step ends the cycle of the good payload
GoodCycleEnds == last'.op = "resolved" /\ last'.data = GoodReading(now)
\* Loading to Displayed, with level 400 and the tier WARNING on the page
ShowsWarning ==
  /\ AppState.isLoading /\ ~AppState'.isLoading /\ ~AppState'.hasError
  /\ last'.data.waterLevel = 400
  /\ display'.currentLevel = 400
  /\ display'.alertLevel = "WARNING"

\* C22 as stated: from an empty store, the cycle of the good payload goes
\* Idle, Loading, Displayed, the tier shown is WARNING and the store then
\* holds exactly the fetched reading.
C22_Original ==
  [][/\ CycleBegins
     /\ GoodCycleEnds =>
          /\ ShowsWarning
          /\ Persisted(slot') = <<StoredReading(last'.data)>>]_vars

\* C22 amended: the store then holds exactly the fetched reading when the
\* payload's time is no more than maxAge before the clock; when it is older
\* the closing cleanOldData of saveReading evicts it and the store is left
\* with no entry.  The page shows level and tier in both cases.
C22_Amended ==
  [][/\ CycleBegins
     /\ GoodCycleEnds =>
          /\ ShowsWarning
          /\ IsStore(slot')
          /\ slot'.readings =
               IF last'.data.timestamp >= now - maxAge
               THEN <<StoredReading(last'.data)>> ELSE <<>>]_vars

\* C22 witness: the good payload came on the last attempt with the clock on
\* the retention edge; the page shows WARNING and the store holds the one
\* reading of level 400.
C22_Witness ==
  /\ last.op = "resolved"
  /\ Len(attempts) = maxRetries
  /\ now = PayloadTime + maxAge
  /\ last.data.timestamp = PayloadTime
  /\ ~AppState.isLoading /\ ~AppState.hasError
  /\ display.alertLevel = "WARNING"
  /\ IsStore(slot)
  /\ slot.readings = <<StoredReading(last.data)>>
  /\ slot.readings[1].waterLevel = 400

\* ------------------------------------------------------------------------
\* The coordinator's controls, continued (ControlSpec)
\* ------------------------------------------------------------------------
\* The step starts a cycle for the timer
TimerCycleStarts ==
  /\ Len(cycle'.pending) = Len(cycle.pending) + 1
  /\ cycle'.pending[Len(cycle'.pending)] = "timer"

\* C31: a cycle is started for the timer only by a tick that finds
\* AppState.autoRefreshEnabled true; a tick that finds it false starts
\* nothing and changes neither AppState nor the page, interval running or
\* not.
C31_TimerGatedByFlag ==
  [][/\ TimerCycleStarts =>
          last'.op = "autoRefresh" /\ AppState.autoRefreshEnabled
     /\ (last'.op = "autoRefresh" /\ ~AppState.autoRefreshEnabled) =>
          /\ cycle' = cycle
          /\ trace' = <<>>
          /\ AppState'.isLoading = AppState.isLoading
          /\ display'.refreshBtnDisabled = display.refreshBtnDisabled]_vars

\* C31 witness: the interval is running with auto-refresh off; its tick
\* has fired and no cycle is in flight.
C31_Witness ==
  /\ last.op = "autoRefresh"
  /\ ~AppState.autoRefreshEnabled
  /\ cycle.intervals = 1
  /\ cycle.pending = <<>>
  /\ ~AppState.isLoading

\* C34: in every state with a fetch cycle in flight AppState.isLoading is
\* true and the manual-refresh button is disabled.
\* C35: whatever the order of initialize, the toggle and destroy, at most one
\* refresh interval is running, and AppState.refreshTimer is non-null
\* exactly when one is.
C35_OneTimer ==
  /\ cycle.intervals \in {0, 1}
  /\ cycle.intervals = 1 <=> AppState.refreshTimer # Null
\* Switching on while an interval runs replaces it; destroy ends it.
C35_Witness ==
  /\ last.op = "toggle"
  /\ last.checked
  /\ last.had = 1
  /\ cycle.intervals = 1
  /\ AppState.refreshTimer # Null
C35_WitnessDestroyed ==
  /\ last.op = "destroy"
  /\ last.had = 1
  /\ cycle.intervals = 0
  /\ AppState.refreshTimer = Null

C34_LoadingWhileInFlight ==
  CycleInFlight => AppState.isLoading /\ display.refreshBtnDisabled

\* ------------------------------------------------------------------------
\* The store's writes, continued (WriteSpec)
\* ------------------------------------------------------------------------
Holds(readings, r) == \E i \in 1..Len(readings) : readings[i] = r
NewerThanAll(readings, t) ==
  \A i \in 1..Len(readings) : readings[i].timestamp < t

\* C32: a saveReading that returns true for a reading inside the retention
\* window and newer than everything stored leaves that reading in the
\* persisted store.
C32_TrueReturnKeepsReading ==
  [][(/\ last'.op = "saveReading"
      /\ last'.ret
      /\ last'.arg.timestamp >= now - maxAge
      /\ NewerThanAll(Persisted(slot), last'.arg.timestamp))
     => Holds(Persisted(slot'), StoredReading(last'.arg))]_vars

\* ------------------------------------------------------------------------
\* Overlapping cycles and the store (ControlSpec)
\* ------------------------------------------------------------------------
AllFresh(readings, t) == \A i \in 1..Len(readings) : Fresh(readings[i], t)

\* C33: a cycle that resolves adds its reading to the store in one step and
\* keeps every reading stored before it, another cycle's included, while
\* the store stays inside the age and entry limits.
C33_CycleAddsItsReading ==
  [][(/\ last'.op = "resolved"
      /\ ~last'.threw
      /\ Len(Persisted(slot)) < maxEntries
      /\ AllFresh(Persisted(slot), now)
      /\ last'.data.timestamp >= now - maxAge)
     => LET new == StoredReading(last'.data)
        IN /\ Len(Persisted(slot')) = Len(Persisted(slot)) + 1
           /\ \A i \in 1..Len(Persisted(slot')) :
                Count(Persisted(slot'), Persisted(slot')[i]) =
                  Count(Persisted(slot), Persisted(slot')[i])
                  + (IF Persisted(slot')[i] = new THEN 1 ELSE 0)]_vars
\* A cycle started by the R key has resolved while the initial cycle is
\* still awaiting its fetch, and its reading is stored
C33_Witness ==
  /\ last.op = "resolved"
  /\ ~last.threw
  /\ cycle.pending = <<"initialize">>
  /\ Count(Persisted(slot), StoredReading(last.data)) >= 1

\* ------------------------------------------------------------------------
\* AppState and the display (AppSpec)
\* ------------------------------------------------------------------------
\* What the page would print for a value, null included
TextOf(v) == ToString(v)

\* C36: with no cycle in flight and a level on the display,
\* AppState.currentLevel is the level displayed.
C36_StateMatchesDisplay ==
  (/\ ~CycleInFlight
   /\ TextOf(display.currentLevel) # TextOf(Null))
  => TextOf(AppState.currentLevel) = TextOf(display.currentLevel)

\* C37: no two readings of the persisted store have the same timestamp.
C37_TimestampsDistinct ==
  \A i, j \in 1..Len(Persisted(slot)) :
    i # j => Persisted(slot)[i].timestamp # Persisted(slot)[j].timestamp

\* ------------------------------------------------------------------------
\* The chart's bands and the classifier's tiers (ClassifierSpec)
\* ------------------------------------------------------------------------
\* The tier whose colouring the line has
Band(borderColor) ==
  IF borderColor = "#F44336" THEN "DANGER"
  ELSE IF borderColor = "#FF9800" THEN "WARNING"
  ELSE "NORMAL"

\* One level goes where fetchAndUpdate sends it: to getAlertLevel, for the
\* display, and to highlightAlertZone of a chart drawn on no history
BandInit == Init /\ slot = Absent
HighlightAlertZone ==
  \E waterLevel \in LevelInputs :
    /\ level' = waterLevel
    /\ tier' = getAlertLevel(waterLevel)
    /\ chart' = highlightAlertZone(IF chart = Null THEN initializeChart(<<>>)
                                   ELSE chart, waterLevel)
    /\ UNCHANGED <<slot, now, last, apiVars, AppState, display, cycle, trace>>
BandNext == HighlightAlertZone
BandSpec == BandInit /\ [][BandNext]_vars

\* C38: the colouring highlightAlertZone gives the line for a level is that
\* of the tier getAlertLevel gives the level, the levels 400 and 800
\* included.
C38_BandIsTier ==
  chart # Null => /\ Band(chart.borderColor) = getAlertLevel(level)
                  /\ Band(chart.borderColor) = tier
\* The line painted for 400 has the warning colouring
C38_Witness ==
  /\ chart # Null
  /\ level = NORMAL_max
  /\ tier = "WARNING"
  /\ chart.borderColor = "#FF9800"

\* ------------------------------------------------------------------------
\* The chart's series (ChartSpec): initialize on a history the store can
\* return, then updateChart with one reading after another
\* ------------------------------------------------------------------------
HistoryReadings ==
  {StoredReading(DataAt(t, l)) : t \in {StartNow - 1, StartNow}, l \in AppLevels}
\* What getHistoricalData can return: at most maxEntries readings
Histories ==
  UNION {[1..n -> HistoryReadings] : n \in 0..maxEntries}

InitializeChart ==
  /\ chart = Null
  /\ \E historicalData \in Histories :
       chart' = initializeChart(historicalData)
  /\ last' = [op |-> "initialize"]
  /\ UNCHANGED <<slot, now, level, tier, apiVars, AppState, display, cycle, trace>>
UpdateChart ==
  /\ chart # Null
  /\ \E newData \in ReadingsAt(now, AppLevels) :
       chart' = updateChart(chart, newData)
  /\ last' = [op |-> "updateChart"]
  /\ UNCHANGED <<slot, now, level, tier, apiVars, AppState, display, cycle, trace>>
ChartNext == InitializeChart \/ UpdateChart
ChartSpec == BandInit /\ [][ChartNext]_vars

\* C39: once the chart is initialised its labels, its values and its two
\* threshold series have one length, and that length is at most
\* maxDataPoints.
C39_SeriesBounded ==
  chart # Null =>
    /\ Len(chart.labels) = Len(chart.values)
    /\ Len(chart.warningLine) = Len(chart.values)
    /\ Len(chart.dangerLine) = Len(chart.values)
    /\ Len(chart.values) <= maxDataPoints

\* ------------------------------------------------------------------------
\* The order of the persisted readings (Spec)
\* ------------------------------------------------------------------------
\* C40: the persisted readings are in non-increasing order of timestamp, so
\* the first is a newest one, after every saveReading, cleanOldData,
\* capacity retry and clearAll.
C40_NewestFirst ==
  \A i, j \in 1..Len(Persisted(slot)) :
    i < j => Persisted(slot)[i].timestamp >= Persisted(slot)[j].timestamp
\* A reading older than the newest was saved and went behind it
C40_Witness ==
  /\ last.op = "saveReading"
  /\ last.ret
  /\ Len(Persisted(slot)) >= 2
  /\ Persisted(slot)[1].timestamp > last.arg.timestamp
  /\ Persisted(slot)[Len(Persisted(slot))] = StoredReading(last.arg)

====
